---- MODULE Spec2Model ----
(***************************************************************************)
(* Translation resolution with dictionary fallback, as implemented by the  *)
(* variants of the voice translator:                                       *)
(*   streamlit_app_final.py    FallbackTranslator                          *)
(*   streamlit_app_working.py  SimpleTranslator                            *)
(*   streamlit_app_robust.py   VoiceTranslatorApp.translate_text           *)
(*                                                                         *)
(* A Python str is a sequence of one-character strings.  An Optional[str]  *)
(* (a helper that returns a string or None) is a record [some, val].       *)
(***************************************************************************)
EXTENDS Integers, Sequences, FiniteSets, TLC

(***************************************************************************)
(* Python str operations used by the translators                           *)
(***************************************************************************)

\* the characters str.strip() and str.split() treat as whitespace
Whitespace == {" ", "\t", "\n"}

\* the characters of word.strip('.,!?;:"()[]'), streamlit_app_final.py
Punctuation == {".", ",", "!", "?", ";", ":", "\"", "(", ")", "[", "]"}

\* str.lower() on one character
UpperToLower ==
  [c \in {"A","B","C","D","E","F","G","H","I","J","K","L","M","N","O","P","Q",
          "R","S","T","U","V","W","X","Y","Z"} |->
     CASE c = "A" -> "a" [] c = "B" -> "b" [] c = "C" -> "c" [] c = "D" -> "d"
       [] c = "E" -> "e" [] c = "F" -> "f" [] c = "G" -> "g" [] c = "H" -> "h"
       [] c = "I" -> "i" [] c = "J" -> "j" [] c = "K" -> "k" [] c = "L" -> "l"
       [] c = "M" -> "m" [] c = "N" -> "n" [] c = "O" -> "o" [] c = "P" -> "p"
       [] c = "Q" -> "q" [] c = "R" -> "r" [] c = "S" -> "s" [] c = "T" -> "t"
       [] c = "U" -> "u" [] c = "V" -> "v" [] c = "W" -> "w" [] c = "X" -> "x"
       [] c = "Y" -> "y" [] c = "Z" -> "z"]

\* str.lower()
Lower(s) ==
  [i \in 1..Len(s) |-> IF s[i] \in DOMAIN UpperToLower THEN UpperToLower[s[i]] ELSE s[i]]

\* str.strip(chars): drop the leading and trailing characters that are in chars
StripChars(s, chars) ==
  LET keep == {i \in 1..Len(s) : s[i] \notin chars}
  IN  IF keep = {} THEN <<>>
      ELSE SubSeq(s, CHOOSE i \in keep : \A j \in keep : i <= j,
                     CHOOSE i \in keep : \A j \in keep : j <= i)

\* str.strip()
Strip(s) == StripChars(s, Whitespace)

\* sub occurs in s at position i
MatchAt(s, sub, i) ==
  /\ i + Len(sub) - 1 <= Len(s)
  /\ \A k \in 1..Len(sub) : s[i + k - 1] = sub[k]

\* `sub in s` as `s.startswith(sub)`
Contains_AtStart(s, sub) == Len(sub) <= Len(s) /\ MatchAt(s, sub, 1)

\* the Python test `sub in s`
Contains(s, sub) == \E i \in 1..(Len(s) - Len(sub) + 1) : MatchAt(s, sub, i)

RECURSIVE ReplaceFrom(_, _, _, _)
ReplaceFrom(s, old, new, i) ==
  IF i > Len(s) THEN <<>>
  ELSE IF MatchAt(s, old, i) THEN new \o ReplaceFrom(s, old, new, i + Len(old))
  ELSE <<s[i]>> \o ReplaceFrom(s, old, new, i + 1)

\* str.replace(old, new) for a non-empty old: every non-overlapping
\* occurrence, scanning from the left
Replace(s, old, new) == ReplaceFrom(s, old, new, 1)

RECURSIVE SplitFrom(_, _, _)
SplitFrom(s, i, word) ==
  IF i > Len(s) THEN (IF word = <<>> THEN <<>> ELSE <<word>>)
  ELSE IF s[i] \in Whitespace
       THEN (IF word = <<>> THEN <<>> ELSE <<word>>) \o SplitFrom(s, i + 1, <<>>)
       ELSE SplitFrom(s, i + 1, Append(word, s[i]))

\* str.split(): the maximal runs of non-whitespace characters
Split(s) == SplitFrom(s, 1, <<>>)

RECURSIVE Join(_, _)
\* sep.join(words)
Join(words, sep) ==
  IF words = <<>> THEN <<>>
  ELSE IF Len(words) = 1 THEN words[1]
  ELSE words[1] \o sep \o Join(Tail(words), sep)

(***************************************************************************)
(* Dictionaries: a Python dict is the sequence of its <<key, value>> items  *)
(* in insertion order (the order `for k, v in d.items()` visits them)       *)
(***************************************************************************)

HasKey(d, k) == \E i \in 1..Len(d) : d[i][1] = k

\* d[k] for a key of d
Lookup(d, k) == d[CHOOSE i \in 1..Len(d) : d[i][1] = k][2]

\* d.get(k, k)
GetOrSelf(d, k) == IF HasKey(d, k) THEN Lookup(d, k) ELSE k

(***************************************************************************)
(* Values exchanged with the backends                                      *)
(***************************************************************************)

\* Python None, and a str s, as the value of an Optional[str]
None == [some |-> FALSE, val |-> <<>>]
Some(s) == [some |-> TRUE, val |-> s]

\* how a call ends: it returns an Optional[str] or it raises an Exception
Returned(opt) == [raised |-> FALSE, ret |-> opt]
Raised == [raised |-> TRUE, ret |-> None]

\* a translation a backend produces for a text that it did translate
Translated == <<"o","k">>

\* the text of a MyMemory quota notice
QuotaNotice == <<"Q","U","O","T","A"," ","l","e","f","t">>

\* the strings a backend may answer for text: nothing, the text itself, a
\* translation, a quota notice
BackendTexts(text) == {<<>>, text, Translated, QuotaNotice}

\* the outcomes of GoogleTranslator(...).translate(text)
LibraryOutcomes(text) ==
  {Raised, Returned(None)} \cup {Returned(Some(s)) : s \in BackendTexts(text)}

\* the outcomes of requests.get / requests.post and of response.json():
\*   error          the request raised (connection error, timeout)
\*   status_code    the HTTP status
\*   json_ok        response.json() parsed the body
\*   responseStatus the body's 'responseStatus' (MyMemory)
\*   has_text       the body holds the translated-text field
\*   translatedText that field
HttpResponses(text) ==
  {r \in [error : BOOLEAN, status_code : {200, 500}, json_ok : BOOLEAN,
          responseStatus : {200, 403}, has_text : BOOLEAN,
          translatedText : BackendTexts(text)] :
     /\ r.error => (r.status_code = 200 /\ r.json_ok)
     /\ (r.error \/ ~r.json_ok) => (r.responseStatus = 200 /\ r.has_text)
     /\ (r.error \/ ~r.json_ok \/ ~r.has_text) => r.translatedText = <<>>}

(***************************************************************************)
(* The texts the translators are called with                               *)
(***************************************************************************)

\* sample texts: empty and blank ones, exact dictionary keys, texts that hold
\* several keys, texts that hold none, German texts
CorpusTexts ==
  {<<>>,
   <<" ">>,
   <<"\t"," ","\n">>,
   <<" ","H","e","l","l","o"," ">>,
   <<"g","o","o","d"," ","m","o","r","n","i","n","g">>,
   <<"T","h","i","r","t","y">>,
   <<"t","h","i","r","t","y"," ","t","w","o">>,
   <<"h","e","l","l","o"," ","g","o","o","d","b","y","e">>,
   <<"h","e","l","l","o"," ","h","e","l","l","o">>,
   <<"x","y","z"," "," ","a","b","c">>,
   <<"h","e","l","l","o"," ","w","o","r","l","d">>,
   <<"t","h","i","s"," ","w","a","t","e","r">>,
   <<"i"," ","k","n","o","w">>,
   <<"t","h","a","n","k"," ","y","o","u"," ","v","e","r","y"," ","m","u","c","h"," ","i","n","d","e","e","d">>,
   <<"g","u","t","e","n"," ","m","o","r","g","e","n">>,
   <<"H","a","l","l","o"," ","W","e","l","t">>,
   <<"h","o","t","e","l">>,
   <<"m","o","r","n","i","n","g",","," ","h","e","l","l","o","!">>}

\* the words the other texts are made of
Vocabulary ==
  {<<"h","e","l","l","o">>,
   <<"H","i">>,
   <<"n","o","!">>,
   <<"x","y","z">>,
   <<"h","a","l","l","o">>}

\* the most words of a text made from Vocabulary
MaxWords == 2

\* every text of 1..MaxWords words of Vocabulary separated by single spaces
VocabularyTexts ==
  {Join(ws, <<" ">>) : ws \in UNION {[1..n -> Vocabulary] : n \in 1..MaxWords}}

Texts == CorpusTexts \cup VocabularyTexts

\* the (src, dest) pairs of a call: the two the pages offer and one that has
\* no dictionary
LangPairs == {<<"en", "de">>, <<"de", "en">>, <<"en", "fr">>}

\* the texts typed or spoken on the pages: stripped and not empty
UiTexts ==
  {<<"h","e","l","l","o">>,
   <<"H","e","l","l","o"," ","w","o","r","l","d">>,
   <<"h","e","l","l","o"," ","g","o","o","d","b","y","e">>,
   <<"x","y","z">>}

\* streamlit_app_final.py, backup_translations['en-de'], in insertion order
FinalEnDe ==
  <<
     <<<<"h","e","l","l","o">>, <<"h","a","l","l","o">>>>,
     <<<<"h","i">>, <<"h","a","l","l","o">>>>,
     <<<<"g","o","o","d"," ","m","o","r","n","i","n","g">>, <<"g","u","t","e","n"," ","m","o","r","g","e","n">>>>,
     <<<<"g","o","o","d"," ","a","f","t","e","r","n","o","o","n">>, <<"g","u","t","e","n"," ","t","a","g">>>>,
     <<<<"g","o","o","d"," ","e","v","e","n","i","n","g">>, <<"g","u","t","e","n"," ","a","b","e","n","d">>>>,
     <<<<"g","o","o","d"," ","n","i","g","h","t">>, <<"g","u","t","e"," ","n","a","c","h","t">>>>,
     <<<<"g","o","o","d","b","y","e">>, <<"a","u","f"," ","w","i","e","d","e","r","s","e","h","e","n">>>>,
     <<<<"b","y","e">>, <<"t","s","c","h","ü","s","s">>>>,
     <<<<"s","e","e"," ","y","o","u"," ","l","a","t","e","r">>, <<"b","i","s"," ","s","p","ä","t","e","r">>>>,
     <<<<"p","l","e","a","s","e">>, <<"b","i","t","t","e">>>>,
     <<<<"t","h","a","n","k"," ","y","o","u">>, <<"d","a","n","k","e">>>>,
     <<<<"t","h","a","n","k","s">>, <<"d","a","n","k","e">>>>,
     <<<<"t","h","a","n","k"," ","y","o","u"," ","v","e","r","y"," ","m","u","c","h">>, <<"v","i","e","l","e","n"," ","d","a","n","k">>>>,
     <<<<"y","o","u"," ","a","r","e"," ","w","e","l","c","o","m","e">>, <<"b","i","t","t","e"," ","s","c","h","ö","n">>>>,
     <<<<"e","x","c","u","s","e"," ","m","e">>, <<"e","n","t","s","c","h","u","l","d","i","g","u","n","g">>>>,
     <<<<"s","o","r","r","y">>, <<"e","n","t","s","c","h","u","l","d","i","g","u","n","g">>>>,
     <<<<"p","a","r","d","o","n">>, <<"v","e","r","z","e","i","h","u","n","g">>>>,
     <<<<"h","o","w"," ","a","r","e"," ","y","o","u">>, <<"w","i","e"," ","g","e","h","t"," ","e","s"," ","d","i","r">>>>,
     <<<<"w","h","a","t"," ","i","s"," ","y","o","u","r"," ","n","a","m","e">>, <<"w","i","e"," ","h","e","i","ß","t"," ","d","u">>>>,
     <<<<"w","h","e","r","e"," ","a","r","e"," ","y","o","u"," ","f","r","o","m">>, <<"w","o","h","e","r"," ","k","o","m","m","s","t"," ","d","u">>>>,
     <<<<"h","o","w"," ","o","l","d"," ","a","r","e"," ","y","o","u">>, <<"w","i","e"," ","a","l","t"," ","b","i","s","t"," ","d","u">>>>,
     <<<<"w","h","a","t"," ","t","i","m","e"," ","i","s"," ","i","t">>, <<"w","i","e"," ","s","p","ä","t"," ","i","s","t"," ","e","s">>>>,
     <<<<"w","h","e","r","e"," ","i","s">>, <<"w","o"," ","i","s","t">>>>,
     <<<<"h","o","w"," ","m","u","c","h">>, <<"w","i","e"," ","v","i","e","l">>>>,
     <<<<"h","o","w"," ","m","a","n","y">>, <<"w","i","e"," ","v","i","e","l","e">>>>,
     <<<<"w","h","a","t">>, <<"w","a","s">>>>,
     <<<<"w","h","e","n">>, <<"w","a","n","n">>>>,
     <<<<"w","h","e","r","e">>, <<"w","o">>>>,
     <<<<"w","h","y">>, <<"w","a","r","u","m">>>>,
     <<<<"h","o","w">>, <<"w","i","e">>>>,
     <<<<"w","h","o">>, <<"w","e","r">>>>,
     <<<<"y","e","s">>, <<"j","a">>>>,
     <<<<"n","o">>, <<"n","e","i","n">>>>,
     <<<<"m","a","y","b","e">>, <<"v","i","e","l","l","e","i","c","h","t">>>>,
     <<<<"i"," ","d","o"," ","n","o","t"," ","k","n","o","w">>, <<"i","c","h"," ","w","e","i","ß"," ","n","i","c","h","t">>>>,
     <<<<"i"," ","u","n","d","e","r","s","t","a","n","d">>, <<"i","c","h"," ","v","e","r","s","t","e","h","e">>>>,
     <<<<"i"," ","d","o"," ","n","o","t"," ","u","n","d","e","r","s","t","a","n","d">>, <<"i","c","h"," ","v","e","r","s","t","e","h","e"," ","n","i","c","h","t">>>>,
     <<<<"i"," ","s","p","e","a","k"," ","e","n","g","l","i","s","h">>, <<"i","c","h"," ","s","p","r","e","c","h","e"," ","e","n","g","l","i","s","c","h">>>>,
     <<<<"d","o"," ","y","o","u"," ","s","p","e","a","k"," ","e","n","g","l","i","s","h">>, <<"s","p","r","e","c","h","e","n"," ","s","i","e"," ","e","n","g","l","i","s","c","h">>>>,
     <<<<"i"," ","l","o","v","e"," ","y","o","u">>, <<"i","c","h"," ","l","i","e","b","e"," ","d","i","c","h">>>>,
     <<<<"i"," ","l","i","k","e"," ","i","t">>, <<"e","s"," ","g","e","f","ä","l","l","t"," ","m","i","r">>>>,
     <<<<"h","e","l","p">>, <<"h","i","l","f","e">>>>,
     <<<<"h","e","l","p"," ","m","e">>, <<"h","i","l","f"," ","m","i","r">>>>,
     <<<<"c","a","l","l"," ","t","h","e"," ","p","o","l","i","c","e">>, <<"r","u","f","e","n"," ","s","i","e"," ","d","i","e"," ","p","o","l","i","z","e","i">>>>,
     <<<<"c","a","l","l"," ","a"," ","d","o","c","t","o","r">>, <<"r","u","f","e","n"," ","s","i","e"," ","e","i","n","e","n"," ","a","r","z","t">>>>,
     <<<<"e","m","e","r","g","e","n","c","y">>, <<"n","o","t","f","a","l","l">>>>,
     <<<<"h","o","s","p","i","t","a","l">>, <<"k","r","a","n","k","e","n","h","a","u","s">>>>,
     <<<<"p","o","l","i","c","e">>, <<"p","o","l","i","z","e","i">>>>,
     <<<<"f","i","r","e"," ","d","e","p","a","r","t","m","e","n","t">>, <<"f","e","u","e","r","w","e","h","r">>>>,
     <<<<"w","h","e","r","e"," ","i","s"," ","t","h","e"," ","b","a","t","h","r","o","o","m">>, <<"w","o"," ","i","s","t"," ","d","i","e"," ","t","o","i","l","e","t","t","e">>>>,
     <<<<"w","h","e","r","e"," ","i","s"," ","t","h","e"," ","t","r","a","i","n"," ","s","t","a","t","i","o","n">>, <<"w","o"," ","i","s","t"," ","d","e","r"," ","b","a","h","n","h","o","f">>>>,
     <<<<"w","h","e","r","e"," ","i","s"," ","t","h","e"," ","a","i","r","p","o","r","t">>, <<"w","o"," ","i","s","t"," ","d","e","r"," ","f","l","u","g","h","a","f","e","n">>>>,
     <<<<"w","h","e","r","e"," ","i","s"," ","t","h","e"," ","h","o","t","e","l">>, <<"w","o"," ","i","s","t"," ","d","a","s"," ","h","o","t","e","l">>>>,
     <<<<"w","h","e","r","e"," ","i","s"," ","t","h","e"," ","r","e","s","t","a","u","r","a","n","t">>, <<"w","o"," ","i","s","t"," ","d","a","s"," ","r","e","s","t","a","u","r","a","n","t">>>>,
     <<<<"l","e","f","t">>, <<"l","i","n","k","s">>>>,
     <<<<"r","i","g","h","t">>, <<"r","e","c","h","t","s">>>>,
     <<<<"s","t","r","a","i","g","h","t">>, <<"g","e","r","a","d","e","a","u","s">>>>,
     <<<<"n","e","a","r">>, <<"n","a","h">>>>,
     <<<<"f","a","r">>, <<"w","e","i","t">>>>,
     <<<<"w","a","t","e","r">>, <<"w","a","s","s","e","r">>>>,
     <<<<"f","o","o","d">>, <<"e","s","s","e","n">>>>,
     <<<<"b","r","e","a","d">>, <<"b","r","o","t">>>>,
     <<<<"m","e","a","t">>, <<"f","l","e","i","s","c","h">>>>,
     <<<<"f","i","s","h">>, <<"f","i","s","c","h">>>>,
     <<<<"v","e","g","e","t","a","b","l","e","s">>, <<"g","e","m","ü","s","e">>>>,
     <<<<"f","r","u","i","t">>, <<"o","b","s","t">>>>,
     <<<<"c","o","f","f","e","e">>, <<"k","a","f","f","e","e">>>>,
     <<<<"t","e","a">>, <<"t","e","e">>>>,
     <<<<"b","e","e","r">>, <<"b","i","e","r">>>>,
     <<<<"w","i","n","e">>, <<"w","e","i","n">>>>,
     <<<<"m","i","l","k">>, <<"m","i","l","c","h">>>>,
     <<<<"s","u","g","a","r">>, <<"z","u","c","k","e","r">>>>,
     <<<<"s","a","l","t">>, <<"s","a","l","z">>>>,
     <<<<"o","n","e">>, <<"e","i","n","s">>>>,
     <<<<"t","w","o">>, <<"z","w","e","i">>>>,
     <<<<"t","h","r","e","e">>, <<"d","r","e","i">>>>,
     <<<<"f","o","u","r">>, <<"v","i","e","r">>>>,
     <<<<"f","i","v","e">>, <<"f","ü","n","f">>>>,
     <<<<"s","i","x">>, <<"s","e","c","h","s">>>>,
     <<<<"s","e","v","e","n">>, <<"s","i","e","b","e","n">>>>,
     <<<<"e","i","g","h","t">>, <<"a","c","h","t">>>>,
     <<<<"n","i","n","e">>, <<"n","e","u","n">>>>,
     <<<<"t","e","n">>, <<"z","e","h","n">>>>,
     <<<<"e","l","e","v","e","n">>, <<"e","l","f">>>>,
     <<<<"t","w","e","l","v","e">>, <<"z","w","ö","l","f">>>>,
     <<<<"t","w","e","n","t","y">>, <<"z","w","a","n","z","i","g">>>>,
     <<<<"t","h","i","r","t","y">>, <<"d","r","e","i","ß","i","g">>>>,
     <<<<"f","o","r","t","y">>, <<"v","i","e","r","z","i","g">>>>,
     <<<<"f","i","f","t","y">>, <<"f","ü","n","f","z","i","g">>>>,
     <<<<"h","u","n","d","r","e","d">>, <<"h","u","n","d","e","r","t">>>>,
     <<<<"t","h","o","u","s","a","n","d">>, <<"t","a","u","s","e","n","d">>>>,
     <<<<"g","o">>, <<"g","e","h","e","n">>>>,
     <<<<"c","o","m","e">>, <<"k","o","m","m","e","n">>>>,
     <<<<"s","e","e">>, <<"s","e","h","e","n">>>>,
     <<<<"h","e","a","r">>, <<"h","ö","r","e","n">>>>,
     <<<<"s","p","e","a","k">>, <<"s","p","r","e","c","h","e","n">>>>,
     <<<<"e","a","t">>, <<"e","s","s","e","n">>>>,
     <<<<"d","r","i","n","k">>, <<"t","r","i","n","k","e","n">>>>,
     <<<<"s","l","e","e","p">>, <<"s","c","h","l","a","f","e","n">>>>,
     <<<<"w","o","r","k">>, <<"a","r","b","e","i","t","e","n">>>>,
     <<<<"s","t","u","d","y">>, <<"s","t","u","d","i","e","r","e","n">>>>,
     <<<<"p","l","a","y">>, <<"s","p","i","e","l","e","n">>>>,
     <<<<"r","u","n">>, <<"l","a","u","f","e","n">>>>,
     <<<<"w","a","l","k">>, <<"g","e","h","e","n">>>>,
     <<<<"b","u","y">>, <<"k","a","u","f","e","n">>>>,
     <<<<"s","e","l","l">>, <<"v","e","r","k","a","u","f","e","n">>>>,
     <<<<"g","i","v","e">>, <<"g","e","b","e","n">>>>,
     <<<<"t","a","k","e">>, <<"n","e","h","m","e","n">>>>,
     <<<<"t","o","d","a","y">>, <<"h","e","u","t","e">>>>,
     <<<<"t","o","m","o","r","r","o","w">>, <<"m","o","r","g","e","n">>>>,
     <<<<"y","e","s","t","e","r","d","a","y">>, <<"g","e","s","t","e","r","n">>>>,
     <<<<"n","o","w">>, <<"j","e","t","z","t">>>>,
     <<<<"l","a","t","e","r">>, <<"s","p","ä","t","e","r">>>>,
     <<<<"e","a","r","l","y">>, <<"f","r","ü","h">>>>,
     <<<<"l","a","t","e">>, <<"s","p","ä","t">>>>,
     <<<<"m","o","r","n","i","n","g">>, <<"m","o","r","g","e","n">>>>,
     <<<<"a","f","t","e","r","n","o","o","n">>, <<"n","a","c","h","m","i","t","t","a","g">>>>,
     <<<<"e","v","e","n","i","n","g">>, <<"a","b","e","n","d">>>>,
     <<<<"n","i","g","h","t">>, <<"n","a","c","h","t">>>>,
     <<<<"m","o","n","d","a","y">>, <<"m","o","n","t","a","g">>>>,
     <<<<"t","u","e","s","d","a","y">>, <<"d","i","e","n","s","t","a","g">>>>,
     <<<<"w","e","d","n","e","s","d","a","y">>, <<"m","i","t","t","w","o","c","h">>>>,
     <<<<"t","h","u","r","s","d","a","y">>, <<"d","o","n","n","e","r","s","t","a","g">>>>,
     <<<<"f","r","i","d","a","y">>, <<"f","r","e","i","t","a","g">>>>,
     <<<<"s","a","t","u","r","d","a","y">>, <<"s","a","m","s","t","a","g">>>>,
     <<<<"s","u","n","d","a","y">>, <<"s","o","n","n","t","a","g">>>>
  >>

\* streamlit_app_working.py, backup_translations['en-de'], in insertion order
WorkingEnDe ==
  <<
     <<<<"h","e","l","l","o">>, <<"h","a","l","l","o">>>>,
     <<<<"g","o","o","d","b","y","e">>, <<"a","u","f"," ","w","i","e","d","e","r","s","e","h","e","n">>>>,
     <<<<"t","h","a","n","k"," ","y","o","u">>, <<"d","a","n","k","e">>>>,
     <<<<"p","l","e","a","s","e">>, <<"b","i","t","t","e">>>>,
     <<<<"y","e","s">>, <<"j","a">>>>,
     <<<<"n","o">>, <<"n","e","i","n">>>>,
     <<<<"h","o","w"," ","a","r","e"," ","y","o","u">>, <<"w","i","e"," ","g","e","h","t"," ","e","s"," ","d","i","r">>>>,
     <<<<"g","o","o","d"," ","m","o","r","n","i","n","g">>, <<"g","u","t","e","n"," ","m","o","r","g","e","n">>>>,
     <<<<"g","o","o","d"," ","e","v","e","n","i","n","g">>, <<"g","u","t","e","n"," ","a","b","e","n","d">>>>,
     <<<<"e","x","c","u","s","e"," ","m","e">>, <<"e","n","t","s","c","h","u","l","d","i","g","u","n","g">>>>,
     <<<<"i"," ","l","o","v","e"," ","y","o","u">>, <<"i","c","h"," ","l","i","e","b","e"," ","d","i","c","h">>>>,
     <<<<"w","h","e","r","e"," ","i","s">>, <<"w","o"," ","i","s","t">>>>,
     <<<<"h","o","w"," ","m","u","c","h">>, <<"w","i","e"," ","v","i","e","l">>>>,
     <<<<"w","h","a","t"," ","t","i","m","e">>, <<"w","i","e"," ","s","p","ä","t">>>>,
     <<<<"h","e","l","p"," ","m","e">>, <<"h","i","l","f"," ","m","i","r">>>>,
     <<<<"i"," ","n","e","e","d">>, <<"i","c","h"," ","b","r","a","u","c","h","e">>>>,
     <<<<"w","a","t","e","r">>, <<"w","a","s","s","e","r">>>>,
     <<<<"f","o","o","d">>, <<"e","s","s","e","n">>>>,
     <<<<"b","a","t","h","r","o","o","m">>, <<"b","a","d","e","z","i","m","m","e","r">>>>,
     <<<<"h","o","t","e","l">>, <<"h","o","t","e","l">>>>,
     <<<<"r","e","s","t","a","u","r","a","n","t">>, <<"r","e","s","t","a","u","r","a","n","t">>>>,
     <<<<"t","r","a","i","n"," ","s","t","a","t","i","o","n">>, <<"b","a","h","n","h","o","f">>>>,
     <<<<"a","i","r","p","o","r","t">>, <<"f","l","u","g","h","a","f","e","n">>>>,
     <<<<"h","o","s","p","i","t","a","l">>, <<"k","r","a","n","k","e","n","h","a","u","s">>>>,
     <<<<"e","m","e","r","g","e","n","c","y">>, <<"n","o","t","f","a","l","l">>>>,
     <<<<"p","o","l","i","c","e">>, <<"p","o","l","i","z","e","i">>>>,
     <<<<"o","n","e">>, <<"e","i","n","s">>>>,
     <<<<"t","w","o">>, <<"z","w","e","i">>>>,
     <<<<"t","h","r","e","e">>, <<"d","r","e","i">>>>,
     <<<<"f","o","u","r">>, <<"v","i","e","r">>>>,
     <<<<"f","i","v","e">>, <<"f","ü","n","f">>>>,
     <<<<"s","i","x">>, <<"s","e","c","h","s">>>>,
     <<<<"s","e","v","e","n">>, <<"s","i","e","b","e","n">>>>,
     <<<<"e","i","g","h","t">>, <<"a","c","h","t">>>>,
     <<<<"n","i","n","e">>, <<"n","e","u","n">>>>,
     <<<<"t","e","n">>, <<"z","e","h","n">>>>
  >>

\* streamlit_app_working.py, backup_translations['de-en'], in insertion order
WorkingDeEn ==
  <<
     <<<<"h","a","l","l","o">>, <<"h","e","l","l","o">>>>,
     <<<<"a","u","f"," ","w","i","e","d","e","r","s","e","h","e","n">>, <<"g","o","o","d","b","y","e">>>>,
     <<<<"d","a","n","k","e">>, <<"t","h","a","n","k"," ","y","o","u">>>>,
     <<<<"b","i","t","t","e">>, <<"p","l","e","a","s","e">>>>,
     <<<<"j","a">>, <<"y","e","s">>>>,
     <<<<"n","e","i","n">>, <<"n","o">>>>,
     <<<<"w","i","e"," ","g","e","h","t"," ","e","s"," ","d","i","r">>, <<"h","o","w"," ","a","r","e"," ","y","o","u">>>>,
     <<<<"g","u","t","e","n"," ","m","o","r","g","e","n">>, <<"g","o","o","d"," ","m","o","r","n","i","n","g">>>>,
     <<<<"g","u","t","e","n"," ","a","b","e","n","d">>, <<"g","o","o","d"," ","e","v","e","n","i","n","g">>>>,
     <<<<"e","n","t","s","c","h","u","l","d","i","g","u","n","g">>, <<"e","x","c","u","s","e"," ","m","e">>>>,
     <<<<"i","c","h"," ","l","i","e","b","e"," ","d","i","c","h">>, <<"i"," ","l","o","v","e"," ","y","o","u">>>>,
     <<<<"w","o"," ","i","s","t">>, <<"w","h","e","r","e"," ","i","s">>>>,
     <<<<"w","i","e"," ","v","i","e","l">>, <<"h","o","w"," ","m","u","c","h">>>>,
     <<<<"w","i","e"," ","s","p","ä","t">>, <<"w","h","a","t"," ","t","i","m","e">>>>,
     <<<<"h","i","l","f"," ","m","i","r">>, <<"h","e","l","p"," ","m","e">>>>,
     <<<<"i","c","h"," ","b","r","a","u","c","h","e">>, <<"i"," ","n","e","e","d">>>>,
     <<<<"w","a","s","s","e","r">>, <<"w","a","t","e","r">>>>,
     <<<<"e","s","s","e","n">>, <<"f","o","o","d">>>>,
     <<<<"b","a","d","e","z","i","m","m","e","r">>, <<"b","a","t","h","r","o","o","m">>>>,
     <<<<"h","o","t","e","l">>, <<"h","o","t","e","l">>>>,
     <<<<"r","e","s","t","a","u","r","a","n","t">>, <<"r","e","s","t","a","u","r","a","n","t">>>>,
     <<<<"b","a","h","n","h","o","f">>, <<"t","r","a","i","n"," ","s","t","a","t","i","o","n">>>>,
     <<<<"f","l","u","g","h","a","f","e","n">>, <<"a","i","r","p","o","r","t">>>>,
     <<<<"k","r","a","n","k","e","n","h","a","u","s">>, <<"h","o","s","p","i","t","a","l">>>>,
     <<<<"n","o","t","f","a","l","l">>, <<"e","m","e","r","g","e","n","c","y">>>>,
     <<<<"p","o","l","i","z","e","i">>, <<"p","o","l","i","c","e">>>>,
     <<<<"e","i","n","s">>, <<"o","n","e">>>>,
     <<<<"z","w","e","i">>, <<"t","w","o">>>>,
     <<<<"d","r","e","i">>, <<"t","h","r","e","e">>>>,
     <<<<"v","i","e","r">>, <<"f","o","u","r">>>>,
     <<<<"f","ü","n","f">>, <<"f","i","v","e">>>>,
     <<<<"s","e","c","h","s">>, <<"s","i","x">>>>,
     <<<<"s","i","e","b","e","n">>, <<"s","e","v","e","n">>>>,
     <<<<"a","c","h","t">>, <<"e","i","g","h","t">>>>,
     <<<<"n","e","u","n">>, <<"n","i","n","e">>>>,
     <<<<"z","e","h","n">>, <<"t","e","n">>>>
  >>

\* streamlit_app_robust.py, backup_translations['en-de'], in insertion order
RobustEnDe ==
  <<
     <<<<"h","e","l","l","o">>, <<"h","a","l","l","o">>>>,
     <<<<"g","o","o","d","b","y","e">>, <<"a","u","f"," ","w","i","e","d","e","r","s","e","h","e","n">>>>,
     <<<<"t","h","a","n","k"," ","y","o","u">>, <<"d","a","n","k","e">>>>,
     <<<<"p","l","e","a","s","e">>, <<"b","i","t","t","e">>>>,
     <<<<"y","e","s">>, <<"j","a">>>>,
     <<<<"n","o">>, <<"n","e","i","n">>>>,
     <<<<"h","o","w"," ","a","r","e"," ","y","o","u">>, <<"w","i","e"," ","g","e","h","t"," ","e","s"," ","d","i","r">>>>,
     <<<<"g","o","o","d"," ","m","o","r","n","i","n","g">>, <<"g","u","t","e","n"," ","m","o","r","g","e","n">>>>,
     <<<<"g","o","o","d"," ","e","v","e","n","i","n","g">>, <<"g","u","t","e","n"," ","a","b","e","n","d">>>>,
     <<<<"e","x","c","u","s","e"," ","m","e">>, <<"e","n","t","s","c","h","u","l","d","i","g","u","n","g">>>>,
     <<<<"i"," ","l","o","v","e"," ","y","o","u">>, <<"i","c","h"," ","l","i","e","b","e"," ","d","i","c","h">>>>,
     <<<<"w","h","e","r","e"," ","i","s">>, <<"w","o"," ","i","s","t">>>>,
     <<<<"h","o","w"," ","m","u","c","h">>, <<"w","i","e"," ","v","i","e","l">>>>,
     <<<<"w","h","a","t"," ","t","i","m","e">>, <<"w","i","e"," ","s","p","ä","t">>>>,
     <<<<"h","e","l","p"," ","m","e">>, <<"h","i","l","f"," ","m","i","r">>>>,
     <<<<"i"," ","n","e","e","d">>, <<"i","c","h"," ","b","r","a","u","c","h","e">>>>,
     <<<<"w","a","t","e","r">>, <<"w","a","s","s","e","r">>>>,
     <<<<"f","o","o","d">>, <<"e","s","s","e","n">>>>,
     <<<<"b","a","t","h","r","o","o","m">>, <<"b","a","d","e","z","i","m","m","e","r">>>>,
     <<<<"h","o","t","e","l">>, <<"h","o","t","e","l">>>>,
     <<<<"r","e","s","t","a","u","r","a","n","t">>, <<"r","e","s","t","a","u","r","a","n","t">>>>,
     <<<<"t","r","a","i","n"," ","s","t","a","t","i","o","n">>, <<"b","a","h","n","h","o","f">>>>,
     <<<<"a","i","r","p","o","r","t">>, <<"f","l","u","g","h","a","f","e","n">>>>,
     <<<<"h","o","s","p","i","t","a","l">>, <<"k","r","a","n","k","e","n","h","a","u","s">>>>,
     <<<<"e","m","e","r","g","e","n","c","y">>, <<"n","o","t","f","a","l","l">>>>,
     <<<<"p","o","l","i","c","e">>, <<"p","o","l","i","z","e","i">>>>
  >>

\* streamlit_app_robust.py, backup_translations['de-en'], in insertion order
RobustDeEn ==
  <<
     <<<<"h","a","l","l","o">>, <<"h","e","l","l","o">>>>,
     <<<<"a","u","f"," ","w","i","e","d","e","r","s","e","h","e","n">>, <<"g","o","o","d","b","y","e">>>>,
     <<<<"d","a","n","k","e">>, <<"t","h","a","n","k"," ","y","o","u">>>>,
     <<<<"b","i","t","t","e">>, <<"p","l","e","a","s","e">>>>,
     <<<<"j","a">>, <<"y","e","s">>>>,
     <<<<"n","e","i","n">>, <<"n","o">>>>,
     <<<<"w","i","e"," ","g","e","h","t"," ","e","s"," ","d","i","r">>, <<"h","o","w"," ","a","r","e"," ","y","o","u">>>>,
     <<<<"g","u","t","e","n"," ","m","o","r","g","e","n">>, <<"g","o","o","d"," ","m","o","r","n","i","n","g">>>>,
     <<<<"g","u","t","e","n"," ","a","b","e","n","d">>, <<"g","o","o","d"," ","e","v","e","n","i","n","g">>>>,
     <<<<"e","n","t","s","c","h","u","l","d","i","g","u","n","g">>, <<"e","x","c","u","s","e"," ","m","e">>>>,
     <<<<"i","c","h"," ","l","i","e","b","e"," ","d","i","c","h">>, <<"i"," ","l","o","v","e"," ","y","o","u">>>>,
     <<<<"w","o"," ","i","s","t">>, <<"w","h","e","r","e"," ","i","s">>>>,
     <<<<"w","i","e"," ","v","i","e","l">>, <<"h","o","w"," ","m","u","c","h">>>>,
     <<<<"w","i","e"," ","s","p","ä","t">>, <<"w","h","a","t"," ","t","i","m","e">>>>,
     <<<<"h","i","l","f"," ","m","i","r">>, <<"h","e","l","p"," ","m","e">>>>,
     <<<<"i","c","h"," ","b","r","a","u","c","h","e">>, <<"i"," ","n","e","e","d">>>>,
     <<<<"w","a","s","s","e","r">>, <<"w","a","t","e","r">>>>,
     <<<<"e","s","s","e","n">>, <<"f","o","o","d">>>>,
     <<<<"b","a","d","e","z","i","m","m","e","r">>, <<"b","a","t","h","r","o","o","m">>>>,
     <<<<"h","o","t","e","l">>, <<"h","o","t","e","l">>>>,
     <<<<"r","e","s","t","a","u","r","a","n","t">>, <<"r","e","s","t","a","u","r","a","n","t">>>>,
     <<<<"b","a","h","n","h","o","f">>, <<"t","r","a","i","n"," ","s","t","a","t","i","o","n">>>>,
     <<<<"f","l","u","g","h","a","f","e","n">>, <<"a","i","r","p","o","r","t">>>>,
     <<<<"k","r","a","n","k","e","n","h","a","u","s">>, <<"h","o","s","p","i","t","a","l">>>>,
     <<<<"n","o","t","f","a","l","l">>, <<"e","m","e","r","g","e","n","c","y">>>>,
     <<<<"p","o","l","i","z","e","i">>, <<"p","o","l","i","c","e">>>>
  >>

(***************************************************************************)
(* streamlit_app_final.py: FallbackTranslator                              *)
(***************************************************************************)

\* {v: k for k, v in d.items()}: a value of d becomes a key at the position of
\* its first occurrence and maps to the key of its last occurrence
ReverseItems(d) ==
  LET indexed == [i \in 1..Len(d) |-> <<i, d[i][2]>>]
      firsts == SelectSeq(indexed,
                  LAMBDA e : \A j \in 1..(e[1] - 1) : d[j][2] # e[2])
  IN  [n \in 1..Len(firsts) |->
         LET v == firsts[n][2]
             last == CHOOSE i \in 1..Len(d) :
                       /\ d[i][2] = v
                       /\ \A j \in (i + 1)..Len(d) : d[j][2] # v
         IN  <<v, d[last][1]>>]

\* backup_translations['de-en'] of FallbackTranslator.__init__
FinalDeEn == ReverseItems(FinalEnDe)

VARIABLES
  backup_translations,  \* self.backup_translations of the translator object
                        \* (of the page object in the robust variant): the
                        \* dictionary of each language pair that has one
  answers               \* the answers the dictionary stage of this
                        \* translator object has given so far: the
                        \* arguments of each call and the text returned

\* the key f'{src}-{dest}' of a language pair
PairKey(src, dest) == <<src, dest>>

\* what FallbackTranslator.__init__ leaves in self.backup_translations
FinalBackupTranslations ==
  [key \in {PairKey("en", "de"), PairKey("de", "en")} |->
     IF key = PairKey("en", "de") THEN FinalEnDe ELSE FinalDeEn]

\* dictionary.get(key, {})
GetOrEmpty(dictionary, key) ==
  IF key \in DOMAIN dictionary THEN dictionary[key] ELSE <<>>

\* self.backup_translations.get(f'{src}-{dest}', {}) of FallbackTranslator
FinalTranslations(src, dest) == GetOrEmpty(backup_translations, PairKey(src, dest))

RECURSIVE FinalPartialMatches(_, _, _, _)
\* the `for phrase, translation in translations.items()` loop of
\* translate_with_dictionary from item i on, with the current values of
\* best_match and text_lower: the iterations whose `if` conditions fail change
\* nothing, so the loop goes straight to the next item that passes both
FinalPartialMatches(d, i, best_match, text_lower) ==
  LET passing == {j \in i..Len(d) : /\ Contains(text_lower, d[j][1])
                                    /\ Len(d[j][1]) > Len(best_match)}
  IN  IF passing = {}
      THEN [best_match |-> best_match, text_lower |-> text_lower]
      ELSE LET j == CHOOSE j \in passing : \A k \in passing : j <= k
               phrase == d[j][1]
               translation == d[j][2]
           IN  FinalPartialMatches(d, j + 1, phrase,
                                   Replace(text_lower, phrase, translation))

\* the word-by-word loop of FallbackTranslator.translate_with_dictionary
FinalTranslateWords(d, words) ==
  [i \in 1..Len(words) |->
     LET clean_word == StripChars(words[i], Punctuation)
     IN  IF HasKey(d, clean_word) THEN Lookup(d, clean_word) ELSE words[i]]

\* f"[Need translation: {text}]"
FinalSentinel(text) ==
  <<"[","N","e","e","d"," ","t","r","a","n","s","l","a","t","i","o","n",":"," ">>
     \o text \o <<"]">>

\* translate_with_dictionary with best_match kept in the object instead of
\* being set to "" in every call: after an earlier answer it still holds what
\* that call left in it, here the lowercased text of an earlier call
Final_translate_with_dictionary_KeepBestMatch(text, src, dest) ==
  LET translations == FinalTranslations(src, dest)
      text_lower == Strip(Lower(text))
      best_match == IF answers = {} THEN <<>>
                    ELSE Strip(Lower((CHOOSE a \in answers : TRUE).text))
      partial == FinalPartialMatches(translations, 1, best_match, text_lower)
      result == Join(FinalTranslateWords(translations, Split(text_lower)), <<" ">>)
  IN  IF HasKey(translations, text_lower) THEN Lookup(translations, text_lower)
      ELSE IF partial.best_match # <<>> THEN partial.text_lower
      ELSE IF result = text_lower THEN FinalSentinel(text)
      ELSE result

\* translate_with_dictionary without the direct phrase match
Final_translate_with_dictionary_NoExact(text, src, dest) ==
  LET translations == FinalTranslations(src, dest)
      text_lower == Strip(Lower(text))
      partial == FinalPartialMatches(translations, 1, <<>>, text_lower)
      result == Join(FinalTranslateWords(translations, Split(text_lower)), <<" ">>)
  IN  IF partial.best_match # <<>> THEN partial.text_lower
      ELSE IF result = text_lower THEN FinalSentinel(text)
      ELSE result

\* FallbackTranslator.translate_with_dictionary
Final_translate_with_dictionary(text, src, dest) ==
  LET translations == FinalTranslations(src, dest)
      text_lower == Strip(Lower(text))
      partial == FinalPartialMatches(translations, 1, <<>>, text_lower)
      result == Join(FinalTranslateWords(translations, Split(text_lower)), <<" ">>)
  IN  IF HasKey(translations, text_lower) THEN Lookup(translations, text_lower)
      ELSE IF partial.best_match # <<>> THEN partial.text_lower
      ELSE IF result = text_lower THEN FinalSentinel(text)
      ELSE result

\* MockTranslation(text, src, dest)
MockTranslation(text, src, dest) == [text |-> text, src |-> src, dest |-> dest]

\* FinalAccepted with `if result is not None` for the test: an empty result
\* is accepted
FinalAccepted_NotNone(result, text) == result.some

\* FinalAccepted without `result != text`: the test of SimpleTranslator.translate
FinalAccepted_Truthy(result, text) == result.some /\ result.val # <<>>

\* the test `result and result != text` of FallbackTranslator.translate
FinalAccepted(result, text) == result.some /\ result.val # <<>> /\ result.val # text

\* FallbackTranslator.translate_with_deep_translator, given what
\* GoogleTranslator(...).translate(text) does: no try/except of its own
Final_translate_with_deep_translator(available, lib) ==
  IF ~available THEN Returned(None) ELSE lib

\* the phrases of the artifact filter of translate_with_mymemory
FinalArtifactPhrases ==
  {<<"h","e","l","l","o">>, <<"q","u","o","t","a">>, <<"l","i","m","i","t">>}

\* Final_mymemory_try with `phrase in translated` for `phrase in
\* translated.lower()`: an artifact in capitals passes the filter
Final_mymemory_try_CaseSensitive(resp) ==
  IF resp.error THEN Raised
  ELSE IF resp.status_code # 200 THEN Returned(None)
  ELSE IF ~resp.json_ok THEN Raised
  ELSE IF resp.responseStatus # 200 THEN Returned(None)
  ELSE IF ~resp.has_text THEN Raised
  ELSE IF \E phrase \in FinalArtifactPhrases :
            Contains(resp.translatedText, phrase)
       THEN Returned(None)
  ELSE Returned(Some(resp.translatedText))

\* the body of the try block of FallbackTranslator.translate_with_mymemory
Final_mymemory_try(resp) ==
  IF resp.error THEN Raised
  ELSE IF resp.status_code # 200 THEN Returned(None)
  ELSE IF ~resp.json_ok THEN Raised
  ELSE IF resp.responseStatus # 200 THEN Returned(None)
  ELSE IF ~resp.has_text THEN Raised
  ELSE IF \E phrase \in FinalArtifactPhrases :
            Contains(Lower(resp.translatedText), phrase)
       THEN Returned(None)
  ELSE Returned(Some(resp.translatedText))

\* FallbackTranslator.translate_with_mymemory: `except Exception: pass`, then
\* `return None`
Final_translate_with_mymemory(resp) ==
  LET out == Final_mymemory_try(resp)
  IN  IF out.raised THEN Returned(None) ELSE out

\* the body of the try block of FallbackTranslator.translate_with_libretranslate
Final_libretranslate_try(resp) ==
  IF resp.error THEN Raised
  ELSE IF resp.status_code # 200 THEN Returned(None)
  ELSE IF ~resp.json_ok THEN Raised
  ELSE IF ~resp.has_text THEN Returned(None)
  ELSE Returned(Some(resp.translatedText))

\* FallbackTranslator.translate_with_libretranslate
Final_translate_with_libretranslate(resp) ==
  LET out == Final_libretranslate_try(resp)
  IN  IF out.raised THEN Returned(None) ELSE out

(***************************************************************************)
(* State                                                                   *)
(***************************************************************************)

VARIABLES
  variant,         \* the program that runs: "final", "working", "robust",
                   \* "simple" or "app" (streamlit_app.py)
  entry,           \* how it is entered: "translate" when the translate method
                   \* of its translator class is called on its own, "page"
                   \* when the Streamlit page runs and the handlers of its
                   \* buttons are called, "history" when the methods that
                   \* keep conversation_history are called on their own,
                   \* "calls" when one translator object is called again
                   \* and again, "helper" when the HTTP stages are followed
                   \* with their responses, "roundtrip" when the dictionary
                   \* stage is applied to a key and then to its answer
  text,            \* the text argument of the call of translate (of the last
                   \* translate_text in the robust variant)
  src,             \* its src argument (the source language of that call)
  dest,            \* its dest argument (the target language of that call)
  deep_available,  \* DEEP_TRANSLATOR_AVAILABLE, set when the module is imported
  pc,              \* the position of the call: the stage it is about to try,
                   \* "done" once it has returned, "raised" if it raised;
                   \* in streamlit_app.py "recording" while start_recording
                   \* runs and "stopped" after stop_recording
  calls,           \* the stages tried so far and how each ended, in order
  result,          \* the MockTranslation returned (meaningful when pc = "done")
  translation_service,   \* translation_service of streamlit_app_robust.py, set
                         \* when the module is imported; in the simple
                         \* variant "googletrans" or "none" for
                         \* services_status['translation']
  source_language,       \* st.session_state.source_language
  target_language,       \* st.session_state.target_language
  current_translation,   \* st.session_state.current_translation
  conversation_history,  \* st.session_state.conversation_history
  session_stats,         \* st.session_state.session_stats, without session_start
  is_recording,          \* st.session_state.is_recording of streamlit_app.py
  clock                  \* the number of timestamps datetime.now() has given to
                         \* translations

\* the state of a call of a translator
callVars == <<text, src, dest, deep_available, pc, calls, result,
             backup_translations, answers>>

\* the state of a page: the module globals and st.session_state
sessionVars == <<translation_service, source_language, target_language,
                 current_translation, conversation_history, session_stats,
                 is_recording, clock>>

vars == <<variant, entry, callVars, sessionVars>>

\* the value of result before the call returns
NoResult == MockTranslation(None, "-", "-")

Call(stage, out) == [stage |-> stage, out |-> out]

\* the value of current_translation that stands for None
NoTranslation ==
  [original_text |-> <<>>, translated_text |-> <<>>, source_lang |-> "-",
   target_lang |-> "-", timestamp |-> 0, is_backup |-> FALSE]

\* setup_session_state: the session a page starts with
SessionInit ==
  /\ source_language = "en"
  /\ target_language = "de"
  /\ current_translation = NoTranslation
  /\ conversation_history = <<>>
  /\ session_stats = [translations_count |-> 0, total_words |-> 0]
  /\ is_recording = FALSE
  /\ clock = 0

\* the most timestamps given in a session
MaxClock == 2

\* the number of quick phrases of each language that are clicked
MaxPhrases == 1

\* the most translations of a session that is followed for its history
MaxSaves == 102

\* the length conversation_history is cut to, streamlit_app_robust.py
RobustHistoryCap == 50

(***************************************************************************)
(* FallbackTranslator.translate, streamlit_app_final.py                    *)
(***************************************************************************)

FinalInit ==
  /\ variant = "final"
  /\ entry = "translate"
  /\ backup_translations = FinalBackupTranslations
  /\ answers = {}
  /\ text \in Texts
  /\ \E p \in LangPairs : src = p[1] /\ dest = p[2]
  /\ deep_available \in BOOLEAN
  /\ pc = "start"
  /\ calls = <<>>
  /\ result = NoResult
  /\ translation_service = "none"
  /\ SessionInit

\* FinalIsBlank without the strip: only the empty text is blank
FinalIsBlank_NoStrip(text_) == text_ = <<>>

\* the test `not text or not text.strip()` of FallbackTranslator.translate
FinalIsBlank(text_) == text_ = <<>> \/ Strip(text_) = <<>>

\* `if not text or not text.strip(): return MockTranslation("", src, dest)`,
\* else on to the first stage
FinalEnter ==
  /\ variant = "final"
  /\ pc = "start"
  /\ IF FinalIsBlank(text)
     THEN /\ pc' = "done"
          /\ result' = MockTranslation(Some(<<>>), src, dest)
     ELSE /\ pc' = IF deep_available THEN "deep" ELSE "mymemory"
          /\ result' = result
  /\ UNCHANGED <<text, src, dest, deep_available, calls, backup_translations, answers>>
  /\ UNCHANGED <<variant, entry, sessionVars>>

\* FinalAfterStage without the try/except around the stage: the exception
\* leaves translate
FinalAfterStage_NoExcept(out, next) ==
  IF out.raised THEN "raised"
  ELSE IF FinalAccepted(out.ret, text) THEN "done"
  ELSE next

\* FinalAfterStage with one try/except around all the backends: an exception
\* skips the backends that are left
FinalAfterStage_SkipRest(out, next) ==
  IF out.raised THEN "dictionary"
  ELSE IF FinalAccepted(out.ret, text) THEN "done"
  ELSE next

\* FinalAfterStage without the early return: the stages go on after an
\* accepted result
FinalAfterStage_NoReturn(out, next) == next

\* where translate goes after a stage that ended with out: the except clause
\* of the stage swallows an exception and falls through to the next stage, an
\* accepted result is returned, any other result falls through
FinalAfterStage(out, next) ==
  IF out.raised THEN next
  ELSE IF FinalAccepted(out.ret, text) THEN "done"
  ELSE next

\* one try/except stage of translate
FinalStage(stage, out, next) ==
  /\ calls' = Append(calls, Call(stage, out))
  /\ pc' = FinalAfterStage(out, next)
  /\ result' = IF pc' = "done" THEN MockTranslation(out.ret, src, dest)
               ELSE result
  /\ UNCHANGED <<text, src, dest, deep_available, backup_translations, answers>>
  /\ UNCHANGED <<variant, entry, sessionVars>>

\* method 1: Deep Translator
FinalTryDeepTranslator ==
  /\ variant = "final"
  /\ pc = "deep"
  /\ \E lib \in LibraryOutcomes(text) :
       FinalStage("deep", Final_translate_with_deep_translator(deep_available, lib),
                  "mymemory")

\* method 2: MyMemory API
FinalTryMyMemory ==
  /\ variant = "final"
  /\ pc = "mymemory"
  /\ \E resp \in HttpResponses(text) :
       FinalStage("mymemory", Final_translate_with_mymemory(resp), "libre")

\* method 3: LibreTranslate
FinalTryLibreTranslate ==
  /\ variant = "final"
  /\ pc = "libre"
  /\ \E resp \in HttpResponses(text) :
       FinalStage("libre", Final_translate_with_libretranslate(resp), "dictionary")

\* method 4: dictionary lookup, outside any try
FinalDictionary ==
  /\ variant = "final"
  /\ pc = "dictionary"
  /\ LET out == Returned(Some(Final_translate_with_dictionary(text, src, dest)))
     IN  /\ calls' = Append(calls, Call("dictionary", out))
         /\ result' = MockTranslation(out.ret, src, dest)
  /\ pc' = "done"
  /\ UNCHANGED <<text, src, dest, deep_available, backup_translations, answers>>
  /\ UNCHANGED <<variant, entry, sessionVars>>

FinalNext ==
  \/ FinalEnter
  \/ FinalTryDeepTranslator
  \/ FinalTryMyMemory
  \/ FinalTryLibreTranslate
  \/ FinalDictionary

SpecFinal == FinalInit /\ [][FinalNext]_vars

(***************************************************************************)
(* VoiceTranslatorApp, streamlit_app_final.py                              *)
(***************************************************************************)

\* the length conversation_history is cut to, streamlit_app_final.py
FinalHistoryCap == 50

\* what is in the text area when "Translate" is clicked, or what the
\* recognizer has heard
TypedInputs ==
  {<<>>,
   <<" ">>,
   <<" ","x","y","z"," ">>,
   <<"h","e","l","l","o"," ","g","o","o","d","b","y","e">>}

\* Submitted without the test of text_input.strip()
Submitted_NoTest(text_input) == {Strip(text_input)}

\* the texts a caller passes to translate_text for the input text_input:
\* `if text_input.strip(): self.translate_text(text_input.strip())`
Submitted(text_input) ==
  IF Strip(text_input) # <<>> THEN {Strip(text_input)} ELSE {}

\* the texts the text area and the recognizer pass to translate_text
TypedTexts == UNION {Submitted(text_input) : text_input \in TypedInputs}

\* the phrases of render_quick_phrases for the source language lang
FinalQuickPhrases(lang) ==
  IF lang = "en"
  THEN <<<<"H","e","l","l","o">>,
     <<"T","h","a","n","k"," ","y","o","u">>,
     <<"P","l","e","a","s","e">>,
     <<"E","x","c","u","s","e"," ","m","e">>,
     <<"H","o","w"," ","a","r","e"," ","y","o","u","?">>,
     <<"W","h","e","r","e"," ","i","s"," ","t","h","e"," ","b","a","t","h","r","o","o","m","?">>,
     <<"H","o","w"," ","m","u","c","h","?">>,
     <<"I"," ","n","e","e","d"," ","h","e","l","p">>,
     <<"D","o"," ","y","o","u"," ","s","p","e","a","k"," ","E","n","g","l","i","s","h","?">>,
     <<"I"," ","d","o","n","'","t"," ","u","n","d","e","r","s","t","a","n","d">>>>
  ELSE <<<<"H","a","l","l","o">>,
     <<"D","a","n","k","e">>,
     <<"B","i","t","t","e">>,
     <<"E","n","t","s","c","h","u","l","d","i","g","u","n","g">>,
     <<"W","i","e"," ","g","e","h","t"," ","e","s"," ","d","i","r","?">>,
     <<"W","o"," ","i","s","t"," ","d","i","e"," ","T","o","i","l","e","t","t","e","?">>,
     <<"W","i","e"," ","v","i","e","l","?">>,
     <<"I","c","h"," ","b","r","a","u","c","h","e"," ","H","i","l","f","e">>,
     <<"S","p","r","e","c","h","e","n"," ","S","i","e"," ","E","n","g","l","i","s","c","h","?">>,
     <<"I","c","h"," ","v","e","r","s","t","e","h","e"," ","n","i","c","h","t">>>>

\* the texts translate_text is called with: the stripped, non-empty text of
\* the text area or of the recognizer, or a quick phrase of the source language
FinalPageTexts(lang) ==
  TypedTexts \cup {FinalQuickPhrases(lang)[i] : i \in 1..MaxPhrases}

\* save_to_history without the cut to the last 50
Final_save_to_history_NoCut(history, translation) ==
  IF \E i \in 1..Len(history) : history[i] = translation THEN history
  ELSE Append(history, translation)

\* VoiceTranslatorApp.save_to_history
Final_save_to_history(history, translation) ==
  IF \E i \in 1..Len(history) : history[i] = translation THEN history
  ELSE LET appended == Append(history, translation)
       IN  IF Len(appended) > FinalHistoryCap
           THEN SubSeq(appended, Len(appended) - FinalHistoryCap + 1, Len(appended))
           ELSE appended

\* VoiceTranslatorApp.update_stats
Final_update_stats(stats, text_) ==
  [translations_count |-> stats.translations_count + 1,
   total_words |-> stats.total_words + Len(Split(text_))]

\* the page after VoiceTranslatorApp.__init__
FinalPageInit ==
  /\ variant = "final"
  /\ entry = "page"
  /\ backup_translations = FinalBackupTranslations
  /\ answers = {}
  /\ text = <<>>
  /\ src = "-"
  /\ dest = "-"
  /\ deep_available \in BOOLEAN
  /\ pc = "idle"
  /\ calls = <<>>
  /\ result = NoResult
  /\ translation_service = "none"
  /\ SessionInit

\* FallbackTranslator.translate as one call: deep, mymemory and libre are
\* the ways its three helpers end and dictionary is what
\* translate_with_dictionary returns for the arguments. Each stage is in a
\* try/except of its own, so a stage that raised is passed over like one
\* whose result is not accepted; the first accepted result is returned, the
\* dictionary's last
Final_translate(text_, src_, dest_, available, deep, mymemory, libre, dictionary) ==
  IF FinalIsBlank(text_) THEN MockTranslation(Some(<<>>), src_, dest_)
  ELSE IF available /\ ~deep.raised /\ FinalAccepted(deep.ret, text_)
       THEN MockTranslation(deep.ret, src_, dest_)
  ELSE IF ~mymemory.raised /\ FinalAccepted(mymemory.ret, text_)
       THEN MockTranslation(mymemory.ret, src_, dest_)
  ELSE IF ~libre.raised /\ FinalAccepted(libre.ret, text_)
       THEN MockTranslation(libre.ret, src_, dest_)
  ELSE MockTranslation(Some(dictionary), src_, dest_)

\* the results translate can give for its arguments, over the ways the
\* backends can answer
FinalTranslateResults(text_, src_, dest_, available) ==
  LET deeps == {Final_translate_with_deep_translator(available, lib) :
                  lib \in LibraryOutcomes(text_)}
      mymemorys == {Final_translate_with_mymemory(resp) : resp \in HttpResponses(text_)}
      libres == {Final_translate_with_libretranslate(resp) : resp \in HttpResponses(text_)}
      dictionary == Final_translate_with_dictionary(text_, src_, dest_)
  IN  {Final_translate(text_, src_, dest_, available, deep, mymemory, libre, dictionary) :
         deep \in deeps, mymemory \in mymemorys, libre \in libres}

\* VoiceTranslatorApp.translate_text(text), from the button "Translate", a
\* quick phrase or the recognizer: the result of translate is stored, counted
\* and saved to the history
FinalTranslateText ==
  /\ variant = "final"
  /\ entry = "page"
  /\ clock < MaxClock
  /\ \E t \in FinalPageTexts(source_language) :
       \E translation \in FinalTranslateResults(t, source_language, target_language,
                                                deep_available) :
         LET result_ == [original_text |-> t,
                         translated_text |-> translation.text.val,
                         source_lang |-> source_language,
                         target_lang |-> target_language,
                         timestamp |-> clock + 1]
         IN  /\ current_translation' = result_
             /\ session_stats' = Final_update_stats(session_stats, t)
             /\ conversation_history' =
                  Final_save_to_history(conversation_history, result_)
             /\ clock' = clock + 1
  /\ UNCHANGED <<variant, entry, callVars, translation_service, is_recording,
                 source_language, target_language>>

\* the sidebar buttons with only source_language written
FinalSetLanguages_SourceOnly ==
  /\ variant = "final"
  /\ entry = "page"
  /\ \E p \in {<<"en", "de">>, <<"de", "en">>} : source_language' = p[1]
  /\ UNCHANGED <<variant, entry, callVars, translation_service, is_recording,
                 target_language, current_translation, conversation_history,
                 session_stats, clock>>

\* the sidebar buttons EN->DE and DE->EN
FinalSetLanguages ==
  /\ variant = "final"
  /\ entry = "page"
  /\ \E p \in {<<"en", "de">>, <<"de", "en">>} :
       /\ source_language' = p[1]
       /\ target_language' = p[2]
  /\ UNCHANGED <<variant, entry, callVars, translation_service, is_recording,
                 current_translation, conversation_history, session_stats, clock>>

\* VoiceTranslatorApp.clear_session, the button "Clear Session"
FinalClearSession ==
  /\ variant = "final"
  /\ entry \in {"page", "history"}
  /\ conversation_history' = <<>>
  /\ current_translation' = NoTranslation
  /\ session_stats' = [translations_count |-> 0, total_words |-> 0]
  /\ UNCHANGED <<variant, entry, callVars, translation_service, is_recording,
                 source_language, target_language, clock>>

FinalPageNext ==
  \/ FinalTranslateText
  \/ FinalSetLanguages
  \/ FinalClearSession

\* the page of streamlit_app_final.py: the handlers of its buttons
SpecFinalPage == FinalPageInit /\ [][FinalPageNext]_vars

(***************************************************************************)
(* SimpleTranslator, streamlit_app_working.py                              *)
(***************************************************************************)

\* WorkingTranslations with the en-de dictionary for every language pair
WorkingTranslations_EnDeOnly(src_, dest_) ==
  GetOrEmpty(backup_translations, PairKey("en", "de"))

\* self.backup_translations.get(f'{src}-{dest}', {}) of SimpleTranslator
WorkingTranslations(src_, dest_) == GetOrEmpty(backup_translations, PairKey(src_, dest_))

\* what SimpleTranslator.__init__ leaves in self.backup_translations
WorkingBackupTranslations ==
  [key \in {PairKey("en", "de"), PairKey("de", "en")} |->
     IF key = PairKey("en", "de") THEN WorkingEnDe ELSE WorkingDeEn]

\* f"[Translation needed: {text}]"
TranslationNeeded(text_) ==
  <<"[","T","r","a","n","s","l","a","t","i","o","n"," ","n","e","e","d","e","d",":"," ">>
     \o text_ \o <<"]">>

\* SimpleTranslator.translate_with_dict
Working_translate_with_dict(text_, src_, dest_) ==
  LET translations == WorkingTranslations(src_, dest_)
      text_lower == Strip(Lower(text_))
      \* the items whose phrase occurs in text_lower; the loop returns at the
      \* first of them
      matching == {i \in 1..Len(translations) : Contains(text_lower, translations[i][1])}
      first == CHOOSE i \in matching : \A j \in matching : i <= j
      words == Split(text_lower)
      result_ == Join([i \in 1..Len(words) |-> GetOrSelf(translations, words[i])],
                      <<" ">>)
  IN  IF HasKey(translations, text_lower) THEN Lookup(translations, text_lower)
      ELSE IF matching # {}
           THEN Replace(text_lower, translations[first][1], translations[first][2])
      ELSE IF result_ = text_lower THEN TranslationNeeded(text_)
      ELSE result_

\* the body of the try block of SimpleTranslator.translate_with_mymemory: the
\* HTTP status is not looked at
Working_mymemory_try(resp) ==
  IF resp.error THEN Raised
  ELSE IF ~resp.json_ok THEN Raised
  ELSE IF resp.responseStatus # 200 THEN Returned(None)
  ELSE IF ~resp.has_text THEN Raised
  ELSE Returned(Some(resp.translatedText))

\* SimpleTranslator.translate_with_mymemory: `except: pass`, then `return None`
Working_translate_with_mymemory(resp) ==
  LET out == Working_mymemory_try(resp)
  IN  IF out.raised THEN Returned(None) ELSE out

\* the body of the try block of SimpleTranslator.translate_with_libre
Working_libre_try(resp) ==
  IF resp.error THEN Raised
  ELSE IF ~resp.json_ok THEN Raised
  ELSE IF ~resp.has_text THEN Returned(None)
  ELSE Returned(Some(resp.translatedText))

\* SimpleTranslator.translate_with_libre
Working_translate_with_libre(resp) ==
  LET out == Working_libre_try(resp)
  IN  IF out.raised THEN Returned(None) ELSE out

\* the test `if result:` of SimpleTranslator.translate
WorkingAccepted(result_) == result_.some /\ result_.val # <<>>

WorkingInit ==
  /\ variant = "working"
  /\ entry = "translate"
  /\ backup_translations = WorkingBackupTranslations
  /\ answers = {}
  /\ text \in Texts
  /\ \E p \in LangPairs : src = p[1] /\ dest = p[2]
  /\ deep_available = FALSE
  /\ pc = "mymemory"
  /\ calls = <<>>
  /\ result = NoResult
  /\ translation_service = "none"
  /\ SessionInit

\* where translate goes after a stage that ended with out: the bare except
\* of the stage swallows an exception, a non-empty result is returned
WorkingAfterStage(out, next) ==
  IF out.raised THEN next
  ELSE IF WorkingAccepted(out.ret) THEN "done"
  ELSE next

\* one try/except stage of SimpleTranslator.translate
WorkingStage(stage, out, next) ==
  /\ calls' = Append(calls, Call(stage, out))
  /\ pc' = WorkingAfterStage(out, next)
  /\ result' = IF pc' = "done" THEN MockTranslation(out.ret, src, dest)
               ELSE result
  /\ UNCHANGED <<text, src, dest, deep_available, backup_translations, answers>>
  /\ UNCHANGED <<variant, entry, sessionVars>>

\* method 1: MyMemory API
WorkingTryMyMemory ==
  /\ variant = "working"
  /\ pc = "mymemory"
  /\ \E resp \in HttpResponses(text) :
       WorkingStage("mymemory", Working_translate_with_mymemory(resp), "libre")

\* method 2: LibreTranslate API
WorkingTryLibre ==
  /\ variant = "working"
  /\ pc = "libre"
  /\ \E resp \in HttpResponses(text) :
       WorkingStage("libre", Working_translate_with_libre(resp), "dictionary")

\* method 3: dictionary, outside any try
WorkingDictionary ==
  /\ variant = "working"
  /\ pc = "dictionary"
  /\ LET out == Returned(Some(Working_translate_with_dict(text, src, dest)))
     IN  /\ calls' = Append(calls, Call("dictionary", out))
         /\ result' = MockTranslation(out.ret, src, dest)
  /\ pc' = "done"
  /\ UNCHANGED <<text, src, dest, deep_available, backup_translations, answers>>
  /\ UNCHANGED <<variant, entry, sessionVars>>

WorkingNext ==
  \/ WorkingTryMyMemory
  \/ WorkingTryLibre
  \/ WorkingDictionary

SpecWorking == WorkingInit /\ [][WorkingNext]_vars

(***************************************************************************)
(* One translator object, called again and again                           *)
(***************************************************************************)

\* the texts of the calls
RepeatTexts ==
  {<<"x","y","z">>,
   <<"h","e","l","l","o"," ","g","o","o","d","b","y","e">>}

\* a FallbackTranslator, made once by initialize_services, at its first call
FinalRepeatInit ==
  /\ variant = "final"
  /\ entry = "calls"
  /\ backup_translations = FinalBackupTranslations
  /\ answers = {}
  /\ text \in RepeatTexts
  /\ \E p \in LangPairs : src = p[1] /\ dest = p[2]
  /\ deep_available \in BOOLEAN
  /\ pc = "start"
  /\ calls = <<>>
  /\ result = NoResult
  /\ translation_service = "none"
  /\ SessionInit

\* a SimpleTranslator, made once by initialize_services, at its first call
WorkingRepeatInit ==
  /\ variant = "working"
  /\ entry = "calls"
  /\ backup_translations = WorkingBackupTranslations
  /\ answers = {}
  /\ text \in RepeatTexts
  /\ \E p \in LangPairs : src = p[1] /\ dest = p[2]
  /\ deep_available = FALSE
  /\ pc = "mymemory"
  /\ calls = <<>>
  /\ result = NoResult
  /\ translation_service = "none"
  /\ SessionInit

\* the call has returned and self.translator.translate is called again, on
\* the same object, with any arguments; an answer of the dictionary stage is
\* noted in answers
TranslateAgain ==
  /\ variant \in {"final", "working"}
  /\ entry = "calls"
  /\ pc = "done"
  /\ answers' = IF calls # <<>> /\ calls[Len(calls)].stage = "dictionary"
                THEN answers \cup {[text |-> text, src |-> src, dest |-> dest,
                                    out |-> result.text.val]}
                ELSE answers
  /\ text' \in RepeatTexts
  /\ \E p \in LangPairs : src' = p[1] /\ dest' = p[2]
  /\ pc' = IF variant = "final" THEN "start" ELSE "mymemory"
  /\ calls' = <<>>
  /\ result' = NoResult
  /\ UNCHANGED <<variant, entry, deep_available, backup_translations, sessionVars>>

\* the calls of translate on one translator object of either class
SpecRepeat ==
  (FinalRepeatInit \/ WorkingRepeatInit)
    /\ [][FinalNext \/ WorkingNext \/ TranslateAgain]_vars

(***************************************************************************)
(* The history of a long session: streamlit_app_final.py,                  *)
(* streamlit_app_working.py and streamlit_app_simple.py                    *)
(***************************************************************************)

\* the length conversation_history is cut to, streamlit_app_working.py
WorkingHistoryCap == 50

\* the length conversation_history is cut to, streamlit_app_simple.py
SimpleHistoryCap == 100

Digits == <<"0", "1", "2", "3", "4", "5", "6", "7", "8", "9">>

RECURSIVE NumberText(_)
\* the text of the n-th translation of the session: the number n as it is typed
NumberText(n) ==
  IF n < 10 THEN <<Digits[n + 1]>>
  ELSE NumberText(n \div 10) \o <<Digits[(n % 10) + 1]>>

\* the record translate_text builds for the n-th translation of the session:
\* translate has returned the number as it is, and FallbackTranslator, which
\* does not accept that from a backend, its marker
HistoryRecord(n) ==
  [original_text |-> NumberText(n),
   translated_text |-> IF variant = "final" THEN FinalSentinel(NumberText(n))
                       ELSE NumberText(n),
   source_lang |-> source_language,
   target_lang |-> target_language,
   timestamp |-> n]

\* save_to_history of streamlit_app_working.py with [:50] for [-50:]: the
\* newest record is cut off
Working_save_to_history_KeepFirst(history, translation) ==
  LET appended == Append(history, translation)
  IN  IF Len(appended) > WorkingHistoryCap
      THEN SubSeq(appended, 1, WorkingHistoryCap)
      ELSE appended

\* VoiceTranslatorApp.save_to_history, streamlit_app_working.py
Working_save_to_history(history, translation) ==
  LET appended == Append(history, translation)
  IN  IF Len(appended) > WorkingHistoryCap
      THEN SubSeq(appended, Len(appended) - WorkingHistoryCap + 1, Len(appended))
      ELSE appended

\* update_session_stats of streamlit_app_working.py without the count of the
\* translation
Working_update_session_stats_WordsOnly(stats, text_) ==
  [translations_count |-> stats.translations_count,
   total_words |-> stats.total_words + Len(Split(text_))]

\* VoiceTranslatorApp.update_session_stats, streamlit_app_working.py
Working_update_session_stats(stats, text_) ==
  [translations_count |-> stats.translations_count + 1,
   total_words |-> stats.total_words + Len(Split(text_))]

\* save_to_history of streamlit_app_simple.py with `translation not in
\* history` for its test: a record is a duplicate only if it is equal in
\* every field
Simple_save_to_history_WholeRecord(history, translation) ==
  IF \E i \in 1..Len(history) : history[i] = translation
  THEN history
  ELSE LET appended == Append(history, translation)
       IN  IF Len(appended) > SimpleHistoryCap
           THEN SubSeq(appended, Len(appended) - SimpleHistoryCap + 1, Len(appended))
           ELSE appended

\* VoiceTranslatorApp.save_to_history, streamlit_app_simple.py
Simple_save_to_history(history, translation) ==
  IF \E i \in 1..Len(history) :
       /\ history[i].original_text = translation.original_text
       /\ history[i].translated_text = translation.translated_text
  THEN history
  ELSE LET appended == Append(history, translation)
       IN  IF Len(appended) > SimpleHistoryCap
           THEN SubSeq(appended, Len(appended) - SimpleHistoryCap + 1, Len(appended))
           ELSE appended

\* VoiceTranslatorApp.update_session_stats, streamlit_app_simple.py
Simple_update_session_stats(stats, text_) ==
  [translations_count |-> stats.translations_count + 1,
   total_words |-> stats.total_words + Len(Split(text_))]

\* a page of one of the three programs at the start of a long session
HistoryInit ==
  /\ variant \in {"final", "working", "simple"}
  /\ entry = "history"
  /\ backup_translations = (CASE variant = "final" -> FinalBackupTranslations
                              [] variant = "working" -> WorkingBackupTranslations
                              [] variant = "simple" -> <<>>)
  /\ answers = {}
  /\ text = <<>>
  /\ src = "-"
  /\ dest = "-"
  /\ deep_available = FALSE
  /\ pc = "idle"
  /\ calls = <<>>
  /\ result = NoResult
  /\ translation_service = "none"
  /\ SessionInit

\* translate_text of streamlit_app_final.py from where translate has
\* returned: the result is stored, counted and saved to the history
FinalStoreTranslation ==
  /\ variant = "final"
  /\ entry = "history"
  /\ clock < MaxSaves
  /\ current_translation' = HistoryRecord(clock + 1)
  /\ session_stats' = Final_update_stats(session_stats, NumberText(clock + 1))
  /\ conversation_history' =
       Final_save_to_history(conversation_history, HistoryRecord(clock + 1))
  /\ clock' = clock + 1
  /\ UNCHANGED <<variant, entry, callVars, translation_service, is_recording,
                 source_language, target_language>>

\* translate_text of streamlit_app_working.py from where translate has returned
WorkingStoreTranslation ==
  /\ variant = "working"
  /\ entry = "history"
  /\ clock < MaxSaves
  /\ current_translation' = HistoryRecord(clock + 1)
  /\ session_stats' = Working_update_session_stats(session_stats, NumberText(clock + 1))
  /\ conversation_history' =
       Working_save_to_history(conversation_history, HistoryRecord(clock + 1))
  /\ clock' = clock + 1
  /\ UNCHANGED <<variant, entry, callVars, translation_service, is_recording,
                 source_language, target_language>>

\* the sidebar buttons EN->DE and DE->EN of streamlit_app_working.py; in the
\* long session that is followed for its history they are clicked only
\* while the history is empty
WorkingSetLanguages ==
  /\ variant = "working"
  /\ entry = "page" \/ (entry = "history" /\ conversation_history = <<>>)
  /\ \E p \in {<<"en", "de">>, <<"de", "en">>} :
       /\ source_language' = p[1]
       /\ target_language' = p[2]
  /\ UNCHANGED <<variant, entry, callVars, translation_service, is_recording,
                 current_translation, conversation_history, session_stats, clock>>

\* VoiceTranslatorApp.clear_session, streamlit_app_working.py
WorkingClearSession ==
  /\ variant = "working"
  /\ entry \in {"page", "history"}
  /\ conversation_history' = <<>>
  /\ current_translation' = NoTranslation
  /\ session_stats' = [translations_count |-> 0, total_words |-> 0]
  /\ UNCHANGED <<variant, entry, callVars, translation_service, is_recording,
                 source_language, target_language, clock>>

\* translate_text of streamlit_app_simple.py from where translate has returned
SimpleStoreTranslation ==
  /\ variant = "simple"
  /\ entry = "history"
  /\ clock < MaxSaves
  /\ current_translation' = HistoryRecord(clock + 1)
  /\ session_stats' = Simple_update_session_stats(session_stats, NumberText(clock + 1))
  /\ conversation_history' =
       Simple_save_to_history(conversation_history, HistoryRecord(clock + 1))
  /\ clock' = clock + 1
  /\ UNCHANGED <<variant, entry, callVars, translation_service, is_recording,
                 source_language, target_language>>

\* the button "Save to History" of streamlit_app_simple.py, shown when there
\* is a current translation
SimpleSaveButton ==
  /\ variant = "simple"
  /\ entry \in {"page", "history"}
  /\ current_translation # NoTranslation
  /\ conversation_history' =
       Simple_save_to_history(conversation_history, current_translation)
  /\ UNCHANGED <<variant, entry, callVars, translation_service, is_recording,
                 source_language, target_language, current_translation,
                 session_stats, clock>>

\* the button "Clear History" of streamlit_app_simple.py, shown when the
\* history is not empty
SimpleClearHistory ==
  /\ variant = "simple"
  /\ entry \in {"page", "history"}
  /\ conversation_history # <<>>
  /\ conversation_history' = <<>>
  /\ UNCHANGED <<variant, entry, callVars, translation_service, is_recording,
                 source_language, target_language, current_translation,
                 session_stats, clock>>

\* VoiceTranslatorApp.clear_session, streamlit_app_simple.py
SimpleClearSession ==
  /\ variant = "simple"
  /\ entry \in {"page", "history"}
  /\ conversation_history' = <<>>
  /\ current_translation' = NoTranslation
  /\ session_stats' = [translations_count |-> 0, total_words |-> 0]
  /\ UNCHANGED <<variant, entry, callVars, translation_service, is_recording,
                 source_language, target_language, clock>>

HistoryNext ==
  \/ FinalStoreTranslation
  \/ FinalClearSession
  \/ WorkingStoreTranslation
  \/ WorkingSetLanguages
  \/ WorkingClearSession
  \/ SimpleStoreTranslation
  \/ SimpleSaveButton
  \/ SimpleClearHistory
  \/ SimpleClearSession

\* what a long session does to conversation_history
SpecHistory == HistoryInit /\ [][HistoryNext]_vars

(***************************************************************************)
(* VoiceTranslatorApp, streamlit_app_working.py                            *)
(***************************************************************************)

\* the quick phrases of render_main_interface for the source language lang
WorkingQuickPhrases(lang) ==
  IF lang = "en"
  THEN <<<<"H","e","l","l","o">>,
         <<"T","h","a","n","k"," ","y","o","u">>,
         <<"E","x","c","u","s","e"," ","m","e">>,
         <<"H","o","w"," ","a","r","e"," ","y","o","u","?">>,
         <<"W","h","e","r","e"," ","i","s",".",".",".","?">>,
         <<"H","o","w"," ","m","u","c","h","?">>>>
  ELSE <<<<"H","a","l","l","o">>,
         <<"D","a","n","k","e">>,
         <<"E","n","t","s","c","h","u","l","d","i","g","u","n","g">>,
         <<"W","i","e"," ","g","e","h","t"," ","e","s"," ","d","i","r","?">>,
         <<"W","o"," ","i","s","t",".",".",".","?">>,
         <<"W","i","e"," ","v","i","e","l","?">>>>

\* the texts translate_text is called with: what the text area or the
\* recognizer submits, or a quick phrase of the source language
WorkingPageTexts(lang) ==
  TypedTexts \cup {WorkingQuickPhrases(lang)[i] : i \in 1..MaxPhrases}

WorkingPageInit ==
  /\ variant = "working"
  /\ entry = "page"
  /\ backup_translations = WorkingBackupTranslations
  /\ answers = {}
  /\ text = <<>>
  /\ src = "-"
  /\ dest = "-"
  /\ deep_available = FALSE
  /\ pc = "idle"
  /\ calls = <<>>
  /\ result = NoResult
  /\ translation_service = "none"
  /\ SessionInit

\* SimpleTranslator.translate as one call: mymemory and libre are the ways
\* its two helpers end and dictionary is what translate_with_dict returns
\* for the arguments
Working_translate(text_, src_, dest_, mymemory, libre, dictionary) ==
  IF ~mymemory.raised /\ WorkingAccepted(mymemory.ret)
  THEN MockTranslation(mymemory.ret, src_, dest_)
  ELSE IF ~libre.raised /\ WorkingAccepted(libre.ret)
       THEN MockTranslation(libre.ret, src_, dest_)
  ELSE MockTranslation(Some(dictionary), src_, dest_)

\* the results translate can give for its arguments, over the ways the
\* backends can answer
WorkingTranslateResults(text_, src_, dest_) ==
  LET mymemorys == {Working_translate_with_mymemory(resp) : resp \in HttpResponses(text_)}
      libres == {Working_translate_with_libre(resp) : resp \in HttpResponses(text_)}
      dictionary == Working_translate_with_dict(text_, src_, dest_)
  IN  {Working_translate(text_, src_, dest_, mymemory, libre, dictionary) :
         mymemory \in mymemorys, libre \in libres}

\* VoiceTranslatorApp.translate_text(text), from the button "Translate Text",
\* a quick phrase or the recognizer: the result of translate is stored,
\* counted and saved to the history
WorkingTranslateText ==
  /\ variant = "working"
  /\ entry = "page"
  /\ clock < MaxClock
  /\ \E t \in WorkingPageTexts(source_language) :
       \E translation \in WorkingTranslateResults(t, source_language, target_language) :
         LET translation_result == [original_text |-> t,
                                    translated_text |-> translation.text.val,
                                    source_lang |-> source_language,
                                    target_lang |-> target_language,
                                    timestamp |-> clock + 1]
         IN  /\ current_translation' = translation_result
             /\ session_stats' = Working_update_session_stats(session_stats, t)
             /\ conversation_history' =
                  Working_save_to_history(conversation_history, translation_result)
             /\ clock' = clock + 1
  /\ UNCHANGED <<variant, entry, callVars, translation_service, is_recording,
                 source_language, target_language>>

WorkingPageNext ==
  \/ WorkingTranslateText
  \/ WorkingSetLanguages
  \/ WorkingClearSession

\* the page of streamlit_app_working.py: the handlers of its buttons
SpecWorkingPage == WorkingPageInit /\ [][WorkingPageNext]_vars

(***************************************************************************)
(* VoiceTranslatorApp, streamlit_app_robust.py                             *)
(***************************************************************************)

\* self.backup_translations.get(key, {}) of backup_translate
RobustTranslations(src_, dest_) == GetOrEmpty(backup_translations, PairKey(src_, dest_))

\* what setup_backup_translations leaves in self.backup_translations
RobustBackupTranslations ==
  [key \in {PairKey("en", "de"), PairKey("de", "en")} |->
     IF key = PairKey("en", "de") THEN RobustEnDe ELSE RobustDeEn]

\* VoiceTranslatorApp.backup_translate
Robust_backup_translate(text_, src_, dest_) ==
  LET translations == RobustTranslations(src_, dest_)
      text_lower == Strip(Lower(text_))
      \* the items whose phrase occurs in text_lower; the loop returns at the
      \* first of them
      matching == {i \in 1..Len(translations) : Contains(text_lower, translations[i][1])}
      first == CHOOSE i \in matching : \A j \in matching : i <= j
  IN  IF HasKey(translations, text_lower) THEN Lookup(translations, text_lower)
      ELSE IF matching # {}
           THEN Replace(Lower(text_), translations[first][1], translations[first][2])
      ELSE TranslationNeeded(text_)

\* the body of the try block of VoiceTranslatorApp.translate_with_mymemory: the
\* HTTP status is not looked at
Robust_mymemory_try(resp) ==
  IF resp.error THEN Raised
  ELSE IF ~resp.json_ok THEN Raised
  ELSE IF resp.responseStatus # 200 THEN Returned(None)
  ELSE IF ~resp.has_text THEN Raised
  ELSE Returned(Some(resp.translatedText))

\* VoiceTranslatorApp.translate_with_mymemory: the exception is logged, then
\* `return None`
Robust_translate_with_mymemory(resp) ==
  LET out == Robust_mymemory_try(resp)
  IN  IF out.raised THEN Returned(None) ELSE out

\* the values of translation_service; "none" is None: no service was found
TranslationServices == {"deep_translator", "translate", "mymemory", "none"}

\* the backend call of translate_text, `if self.services['translation']: ...`,
\* and the ways it can end for text_: the library translators are called
\* bare, MyMemory through its helper, and without a service nothing is called
RobustBackendCalls(service, text_) ==
  IF service \in {"deep_translator", "translate"}
  THEN {<<Call(service, lib)>> : lib \in LibraryOutcomes(text_)}
  ELSE IF service = "mymemory"
       THEN {<<Call("mymemory", Robust_translate_with_mymemory(resp))>> :
               resp \in HttpResponses(text_)}
  ELSE {<<>>}

\* RobustResolve with `is_backup = True` only where no service was called:
\* the fallback after a backend that gave nothing is not flagged
RobustResolve_FlagWithoutService(text_, src_, dest_, backend_calls) ==
  LET raised == backend_calls # <<>> /\ backend_calls[1].out.raised
      translated_text == IF backend_calls = <<>> THEN None
                         ELSE backend_calls[1].out.ret
      is_backup == ~(translated_text.some /\ translated_text.val # <<>>)
      backup == Robust_backup_translate(text_, src_, dest_)
  IN  [raised |-> raised,
       is_backup |-> ~raised /\ backend_calls = <<>>,
       translated_text |-> IF raised THEN <<>>
                           ELSE IF is_backup THEN backup
                           ELSE translated_text.val,
       calls |-> IF ~raised /\ is_backup
                 THEN Append(backend_calls, Call("dictionary", Returned(Some(backup))))
                 ELSE backend_calls]

\* what translate_text does after the backend call ended with the calls
\* backend_calls: an exception leaves the try block for
\* `except Exception as e: st.error(...)`; otherwise `if not translated_text`
\* falls back to backup_translate
RobustResolve(text_, src_, dest_, backend_calls) ==
  LET raised == backend_calls # <<>> /\ backend_calls[1].out.raised
      translated_text == IF backend_calls = <<>> THEN None
                         ELSE backend_calls[1].out.ret
      is_backup == ~(translated_text.some /\ translated_text.val # <<>>)
      backup == Robust_backup_translate(text_, src_, dest_)
  IN  [raised |-> raised,
       is_backup |-> ~raised /\ is_backup,
       translated_text |-> IF raised THEN <<>>
                           ELSE IF is_backup THEN backup
                           ELSE translated_text.val,
       calls |-> IF ~raised /\ is_backup
                 THEN Append(backend_calls, Call("dictionary", Returned(Some(backup))))
                 ELSE backend_calls]

\* VoiceTranslatorApp.save_to_history
Robust_save_to_history(history, translation) ==
  IF \E i \in 1..Len(history) : history[i] = translation THEN history
  ELSE LET appended == Append(history, translation)
       IN  IF Len(appended) > RobustHistoryCap
           THEN SubSeq(appended, Len(appended) - RobustHistoryCap + 1, Len(appended))
           ELSE appended

\* VoiceTranslatorApp.update_session_stats
Robust_update_session_stats(stats, text_) ==
  [translations_count |-> stats.translations_count + 1,
   total_words |-> stats.total_words + Len(Split(text_))]

RobustInit ==
  /\ variant = "robust"
  /\ entry = "page"
  /\ backup_translations = RobustBackupTranslations
  /\ answers = {}
  /\ text = <<>>
  /\ src = "-"
  /\ dest = "-"
  /\ deep_available = FALSE
  /\ pc = "idle"
  /\ calls = <<>>
  /\ result = NoResult
  /\ translation_service \in TranslationServices
  /\ SessionInit

\* VoiceTranslatorApp.translate_text(text), called with the stripped, non-empty
\* text of the text area or of the recognizer
RobustTranslateText ==
  /\ variant = "robust"
  /\ clock < MaxClock
  /\ \E t \in UiTexts : \E backend_calls \in RobustBackendCalls(translation_service, t) :
       LET r == RobustResolve(t, source_language, target_language, backend_calls)
           translation == [original_text |-> t,
                           translated_text |-> r.translated_text,
                           source_lang |-> source_language,
                           target_lang |-> target_language,
                           timestamp |-> clock + 1,
                           is_backup |-> r.is_backup]
       IN  /\ text' = t
           /\ src' = source_language
           /\ dest' = target_language
           /\ calls' = r.calls
           /\ pc' = IF r.raised THEN "error" ELSE "done"
           /\ IF r.raised \/ r.translated_text = <<>>
              THEN UNCHANGED <<current_translation, session_stats,
                               conversation_history, clock>>
              ELSE /\ current_translation' = translation
                   /\ session_stats' = Robust_update_session_stats(session_stats, t)
                   /\ conversation_history' =
                        Robust_save_to_history(conversation_history, translation)
                   /\ clock' = clock + 1
  /\ UNCHANGED <<variant, entry, backup_translations, answers,
                 deep_available, result, translation_service, is_recording,
                 source_language, target_language>>

\* the sidebar buttons EN->DE and DE->EN
RobustSetLanguages ==
  /\ variant = "robust"
  /\ \E p \in {<<"en", "de">>, <<"de", "en">>} :
       /\ source_language' = p[1]
       /\ target_language' = p[2]
  /\ UNCHANGED <<variant, entry, backup_translations, answers,
                 text, src, dest, deep_available, pc, calls, result,
                 translation_service, is_recording, current_translation,
                 conversation_history, session_stats, clock>>

\* the button "Save to History", shown when there is a current translation
RobustSaveButton ==
  /\ variant = "robust"
  /\ current_translation # NoTranslation
  /\ conversation_history' =
       Robust_save_to_history(conversation_history, current_translation)
  /\ UNCHANGED <<variant, entry, backup_translations, answers,
                 text, src, dest, deep_available, pc, calls, result,
                 translation_service, is_recording, source_language,
                 target_language, current_translation, session_stats, clock>>

\* the button "Clear" of the history, shown when the history is not empty
RobustClearHistory ==
  /\ variant = "robust"
  /\ conversation_history # <<>>
  /\ conversation_history' = <<>>
  /\ UNCHANGED <<variant, entry, backup_translations, answers,
                 text, src, dest, deep_available, pc, calls, result,
                 translation_service, is_recording, source_language,
                 target_language, current_translation, session_stats, clock>>

\* VoiceTranslatorApp.clear_session
RobustClearSession ==
  /\ variant = "robust"
  /\ conversation_history' = <<>>
  /\ current_translation' = NoTranslation
  /\ session_stats' = [translations_count |-> 0, total_words |-> 0]
  /\ UNCHANGED <<variant, entry, backup_translations, answers,
                 text, src, dest, deep_available, pc, calls, result,
                 translation_service, is_recording, source_language,
                 target_language, clock>>

RobustNext ==
  \/ RobustTranslateText
  \/ RobustSetLanguages
  \/ RobustSaveButton
  \/ RobustClearHistory
  \/ RobustClearSession

SpecRobust == RobustInit /\ [][RobustNext]_vars

(***************************************************************************)
(* The HTTP stages, with the response each of them got                     *)
(***************************************************************************)

\* the texts of the calls
HelperTexts ==
  {<<"x","y","z">>,
   <<"H","e","l","l","o"," ","w","o","r","l","d">>}

\* a stage, how it ended and the response it got
LoggedCall(stage, out, resp) == [stage |-> stage, out |-> out, response |-> resp]

\* translate of FallbackTranslator or of SimpleTranslator at its MyMemory
\* stage, or translate_text of the robust variant at its call of
\* translate_with_mymemory
HelperInit ==
  /\ variant \in {"final", "working", "robust"}
  /\ entry = "helper"
  /\ backup_translations = (CASE variant = "final" -> FinalBackupTranslations
                              [] variant = "working" -> WorkingBackupTranslations
                              [] variant = "robust" -> RobustBackupTranslations)
  /\ answers = {}
  /\ text \in HelperTexts
  /\ src = "en"
  /\ dest = "de"
  /\ deep_available = FALSE
  /\ pc = "mymemory"
  /\ calls = <<>>
  /\ result = NoResult
  /\ translation_service = IF variant = "robust" THEN "mymemory" ELSE "none"
  /\ SessionInit

\* method 2 of FallbackTranslator.translate, the response noted
FinalTryMyMemoryLogged ==
  /\ variant = "final"
  /\ entry = "helper"
  /\ pc = "mymemory"
  /\ \E resp \in HttpResponses(text) :
       LET out == Final_translate_with_mymemory(resp)
       IN  /\ calls' = Append(calls, LoggedCall("mymemory", out, resp))
           /\ pc' = FinalAfterStage(out, "libre")
           /\ result' = IF pc' = "done" THEN MockTranslation(out.ret, src, dest)
                        ELSE result
  /\ UNCHANGED <<text, src, dest, deep_available, backup_translations, answers>>
  /\ UNCHANGED <<variant, entry, sessionVars>>

\* method 1 of SimpleTranslator.translate, the response noted
WorkingTryMyMemoryLogged ==
  /\ variant = "working"
  /\ entry = "helper"
  /\ pc = "mymemory"
  /\ \E resp \in HttpResponses(text) :
       LET out == Working_translate_with_mymemory(resp)
       IN  /\ calls' = Append(calls, LoggedCall("mymemory", out, resp))
           /\ pc' = WorkingAfterStage(out, "libre")
           /\ result' = IF pc' = "done" THEN MockTranslation(out.ret, src, dest)
                        ELSE result
  /\ UNCHANGED <<text, src, dest, deep_available, backup_translations, answers>>
  /\ UNCHANGED <<variant, entry, sessionVars>>

\* method 2 of SimpleTranslator.translate, the response noted
WorkingTryLibreLogged ==
  /\ variant = "working"
  /\ entry = "helper"
  /\ pc = "libre"
  /\ \E resp \in HttpResponses(text) :
       LET out == Working_translate_with_libre(resp)
       IN  /\ calls' = Append(calls, LoggedCall("libre", out, resp))
           /\ pc' = WorkingAfterStage(out, "dictionary")
           /\ result' = IF pc' = "done" THEN MockTranslation(out.ret, src, dest)
                        ELSE result
  /\ UNCHANGED <<text, src, dest, deep_available, backup_translations, answers>>
  /\ UNCHANGED <<variant, entry, sessionVars>>

\* translate_with_mymemory of the robust variant, the response noted
RobustMyMemoryLogged ==
  /\ variant = "robust"
  /\ entry = "helper"
  /\ pc = "mymemory"
  /\ \E resp \in HttpResponses(text) :
       calls' = <<LoggedCall("mymemory", Robust_translate_with_mymemory(resp), resp)>>
  /\ pc' = "done"
  /\ UNCHANGED <<text, src, dest, deep_available, result, backup_translations, answers>>
  /\ UNCHANGED <<variant, entry, sessionVars>>

HelperNext ==
  \/ FinalTryMyMemoryLogged
  \/ FinalTryLibreTranslate
  \/ FinalDictionary
  \/ WorkingTryMyMemoryLogged
  \/ WorkingTryLibreLogged
  \/ WorkingDictionary
  \/ RobustMyMemoryLogged

\* the HTTP stages of the three programs and what follows them
SpecHelpers == HelperInit /\ [][HelperNext]_vars

(***************************************************************************)
(* The dictionary stage applied to one of its keys and then, in the other  *)
(* direction, to its answer                                                *)
(***************************************************************************)

\* the two language pairs that have a dictionary
DictionaryPairs == {<<"en", "de">>, <<"de", "en">>}

\* the keys of a dictionary
Keys(d) == {d[i][1] : i \in 1..Len(d)}

\* the translator object after __init__ (setup_backup_translations in the
\* robust variant) and a key of one of its dictionaries as the text
RoundTripInit ==
  /\ variant \in {"final", "working", "robust"}
  /\ entry = "roundtrip"
  /\ backup_translations = (CASE variant = "final" -> FinalBackupTranslations
                              [] variant = "working" -> WorkingBackupTranslations
                              [] variant = "robust" -> RobustBackupTranslations)
  /\ answers = {}
  /\ \E p \in DictionaryPairs : src = p[1] /\ dest = p[2]
  /\ text \in Keys(backup_translations[PairKey(src, dest)])
  /\ deep_available = FALSE
  /\ pc = "there"
  /\ calls = <<>>
  /\ result = NoResult
  /\ translation_service = "none"
  /\ SessionInit

\* the dictionary stage of the variant
DictionaryStage(text_, src_, dest_) ==
  CASE variant = "final" -> Final_translate_with_dictionary(text_, src_, dest_)
    [] variant = "working" -> Working_translate_with_dict(text_, src_, dest_)
    [] variant = "robust" -> Robust_backup_translate(text_, src_, dest_)

\* the key is translated from src to dest
TranslateThere ==
  /\ entry = "roundtrip"
  /\ pc = "there"
  /\ calls' = <<Call("dictionary", Returned(Some(DictionaryStage(text, src, dest))))>>
  /\ pc' = "back"
  /\ UNCHANGED <<text, src, dest, deep_available, result, backup_translations, answers>>
  /\ UNCHANGED <<variant, entry, sessionVars>>

\* the answer is translated from dest to src
TranslateBack ==
  /\ entry = "roundtrip"
  /\ pc = "back"
  /\ LET out == Returned(Some(DictionaryStage(calls[1].out.ret.val, dest, src)))
     IN  /\ calls' = Append(calls, Call("dictionary", out))
         /\ result' = MockTranslation(out.ret, dest, src)
  /\ pc' = "done"
  /\ UNCHANGED <<text, src, dest, deep_available, backup_translations, answers>>
  /\ UNCHANGED <<variant, entry, sessionVars>>

RoundTripNext == TranslateThere \/ TranslateBack

\* every key of every dictionary, there and back
SpecRoundTrip == RoundTripInit /\ [][RoundTripNext]_vars

(***************************************************************************)
(* VoiceTranslatorApp, streamlit_app_simple.py                             *)
(***************************************************************************)

\* the most calls of translate_text of a session of the simple variant
MaxCalls == 3

\* the part of st.session_state that translate_text writes
Session ==
  [current_translation |-> current_translation,
   session_stats |-> session_stats,
   conversation_history |-> conversation_history]

\* translate_text with update_session_stats before the call of the backend
Simple_translate_text_CountFirst(session, text_, src_, dest_, available, out, now) ==
  IF ~available THEN session
  ELSE IF out.raised \/ ~out.ret.some
  THEN [session EXCEPT
          !.session_stats = Simple_update_session_stats(session.session_stats, text_)]
  ELSE LET translation_result == [original_text |-> text_,
                                  translated_text |-> out.ret.val,
                                  source_lang |-> src_,
                                  target_lang |-> dest_,
                                  timestamp |-> now]
       IN  [current_translation |-> translation_result,
            session_stats |->
              Simple_update_session_stats(session.session_stats, text_),
            conversation_history |->
              Simple_save_to_history(session.conversation_history, translation_result)]

\* VoiceTranslatorApp.translate_text(text): what it leaves in the session.
\* available is services_status['translation'], out the way
\* self.translator.translate ended (with None for a result, translation.text
\* raises) and now the timestamp
Simple_translate_text(session, text_, src_, dest_, available, out, now) ==
  IF ~available THEN session
  ELSE IF out.raised \/ ~out.ret.some THEN session
  ELSE LET translation_result == [original_text |-> text_,
                                  translated_text |-> out.ret.val,
                                  source_lang |-> src_,
                                  target_lang |-> dest_,
                                  timestamp |-> now]
       IN  [current_translation |-> translation_result,
            session_stats |->
              Simple_update_session_stats(session.session_stats, text_),
            conversation_history |->
              Simple_save_to_history(session.conversation_history, translation_result)]

\* the page after initialize_services; translation_service is "googletrans"
\* when services_status['translation'] is true and "none" when it is not
SimplePageInit ==
  /\ variant = "simple"
  /\ entry = "page"
  /\ backup_translations = <<>>
  /\ answers = {}
  /\ text = <<>>
  /\ src = "-"
  /\ dest = "-"
  /\ deep_available = FALSE
  /\ pc = "idle"
  /\ calls = <<>>
  /\ result = NoResult
  /\ translation_service \in {"googletrans", "none"}
  /\ SessionInit

\* translate_text(text), called with a text that is stripped and not empty;
\* calls notes every call and how the backend ended in it
SimpleTranslateText ==
  /\ variant = "simple"
  /\ entry = "page"
  /\ clock < MaxClock
  /\ Len(calls) < MaxCalls
  /\ \E t \in TypedTexts :
       \E out \in (IF translation_service = "none" THEN {Returned(None)}
                   ELSE LibraryOutcomes(t)) :
         LET available == translation_service # "none"
             after == Simple_translate_text(Session, t, source_language,
                                            target_language, available, out,
                                            clock + 1)
         IN  /\ text' = t
             /\ calls' = Append(calls, Call(translation_service, out))
             /\ current_translation' = after.current_translation
             /\ session_stats' = after.session_stats
             /\ conversation_history' = after.conversation_history
             /\ clock' = IF available /\ ~out.raised /\ out.ret.some
                         THEN clock + 1 ELSE clock
  /\ UNCHANGED <<src, dest, deep_available, pc, result, backup_translations, answers>>
  /\ UNCHANGED <<variant, entry, translation_service, is_recording,
                 source_language, target_language>>

\* the sidebar buttons EN->DE and DE->EN of streamlit_app_simple.py
SimpleSetLanguages ==
  /\ variant = "simple"
  /\ entry = "page"
  /\ \E p \in {<<"en", "de">>, <<"de", "en">>} :
       /\ source_language' = p[1]
       /\ target_language' = p[2]
  /\ UNCHANGED <<variant, entry, callVars, translation_service, is_recording,
                 current_translation, conversation_history, session_stats, clock>>

SimplePageNext ==
  \/ SimpleTranslateText
  \/ SimpleSetLanguages
  \/ SimpleSaveButton
  \/ SimpleClearHistory
  \/ SimpleClearSession

\* the page of streamlit_app_simple.py: the handlers of its buttons
SpecSimplePage == SimplePageInit /\ [][SimplePageNext]_vars

(***************************************************************************)
(* VoiceTranslatorApp, streamlit_app.py                                    *)
(***************************************************************************)

\* the length conversation_history is cut to, streamlit_app.py
AppHistoryCap == 50

\* VoiceTranslatorApp.save_to_history, streamlit_app.py
App_save_to_history(history, translation) ==
  IF \E i \in 1..Len(history) : history[i] = translation
  THEN history
  ELSE LET appended == Append(history, translation)
       IN  IF Len(appended) > AppHistoryCap
           THEN SubSeq(appended, Len(appended) - AppHistoryCap + 1, Len(appended))
           ELSE appended

\* VoiceTranslatorApp.translate_text(text): what it leaves in the session.
\* available tells whether initialize_services got as far as
\* self.translator (without it the call raises AttributeError), out is the
\* way self.translator.translate ended (with None for a result,
\* translation.text raises) and now the timestamp
App_translate_text(session, text_, src_, dest_, available, out, now) ==
  IF ~available \/ out.raised \/ ~out.ret.some THEN session
  ELSE LET translation_result == [original_text |-> text_,
                                  translated_text |-> out.ret.val,
                                  source_lang |-> src_,
                                  target_lang |-> dest_,
                                  timestamp |-> now]
       IN  [current_translation |-> translation_result,
            session_stats |->
              [translations_count |-> session.session_stats.translations_count + 1,
               total_words |-> session.session_stats.total_words + Len(Split(text_))],
            conversation_history |->
              App_save_to_history(session.conversation_history, translation_result)]

\* the ways the try block of start_recording is left: listen raised
\* WaitTimeoutError, something raised another exception, speech_to_text gave
\* no text, or a text was heard and translate_text was called with it
RecordingOutcomes == {"timeout", "error", "no_text", "heard"}

\* start_recording with the reset of is_recording as the last statement of
\* the try block instead of the finally clause
App_start_recording_exit_NoFinally(outcome) == outcome \in {"timeout", "error"}

\* the value of is_recording when start_recording is left after outcome: the
\* finally clause sets it to False on every path
App_start_recording_exit(outcome) == FALSE

\* the page after initialize_services and setup_session_state;
\* current_translation is st.session_state.last_translation and
\* translation_service is "googletrans" when self.translator was set
AppPageInit ==
  /\ variant = "app"
  /\ entry = "page"
  /\ backup_translations = <<>>
  /\ answers = {}
  /\ text = <<>>
  /\ src = "-"
  /\ dest = "-"
  /\ deep_available = FALSE
  /\ pc = "idle"
  /\ calls = <<>>
  /\ result = NoResult
  /\ translation_service \in {"googletrans", "none"}
  /\ SessionInit

\* the button "Translate Text", with a text area that is not empty
AppTranslateText ==
  /\ variant = "app"
  /\ pc \in {"idle", "stopped"}
  /\ clock < MaxClock
  /\ \E t \in TypedInputs \ {<<>>} :
       \E out \in (IF translation_service = "none" THEN {Raised}
                   ELSE LibraryOutcomes(t)) :
         LET available == translation_service # "none"
             after == App_translate_text(Session, t, source_language,
                                         target_language, available, out, clock + 1)
         IN  /\ current_translation' = after.current_translation
             /\ session_stats' = after.session_stats
             /\ conversation_history' = after.conversation_history
             /\ clock' = IF after = Session THEN clock ELSE clock + 1
  /\ pc' = "idle"
  /\ UNCHANGED <<text, src, dest, deep_available, calls, result,
                 backup_translations, answers>>
  /\ UNCHANGED <<variant, entry, translation_service, is_recording,
                 source_language, target_language>>

\* the recording control of render_main_interface: "Start Recording" while
\* is_recording is false, and start_recording up to where it records;
\* "Stop Recording" and stop_recording while it is true
AppRecordButton ==
  /\ variant = "app"
  /\ pc \in {"idle", "stopped"}
  /\ IF ~is_recording
     THEN is_recording' = TRUE /\ pc' = "recording"
     ELSE is_recording' = FALSE /\ pc' = "stopped"
  /\ UNCHANGED <<text, src, dest, deep_available, calls, result,
                 backup_translations, answers>>
  /\ UNCHANGED <<variant, entry, translation_service, source_language,
                 target_language, current_translation, conversation_history,
                 session_stats, clock>>

\* start_recording from the recording to its end; calls notes how the last
\* recording ended
AppRecordingEnds ==
  /\ variant = "app"
  /\ pc = "recording"
  /\ \E outcome \in RecordingOutcomes :
       /\ outcome = "heard" => clock < MaxClock
       /\ \E t \in (IF outcome = "heard" THEN TypedInputs \ {<<>>} ELSE {<<>>}) :
            \E out \in (IF outcome # "heard" \/ translation_service = "none"
                        THEN {Raised} ELSE LibraryOutcomes(t)) :
              LET available == outcome = "heard" /\ translation_service # "none"
                  after == App_translate_text(Session, t, source_language,
                                              target_language, available, out,
                                              clock + 1)
              IN  /\ text' = t
                  /\ current_translation' = after.current_translation
                  /\ session_stats' = after.session_stats
                  /\ conversation_history' = after.conversation_history
                  /\ clock' = IF after = Session THEN clock ELSE clock + 1
       /\ calls' = <<Call(outcome, Returned(None))>>
       /\ is_recording' = App_start_recording_exit(outcome)
  /\ pc' = "idle"
  /\ UNCHANGED <<src, dest, deep_available, result, backup_translations, answers>>
  /\ UNCHANGED <<variant, entry, translation_service, source_language,
                 target_language>>

\* the sidebar buttons of the two directions
AppSetLanguages ==
  /\ variant = "app"
  /\ pc \in {"idle", "stopped"}
  /\ \E p \in {<<"en", "de">>, <<"de", "en">>} :
       /\ source_language' = p[1]
       /\ target_language' = p[2]
  /\ UNCHANGED <<variant, entry, callVars, translation_service, is_recording,
                 current_translation, conversation_history, session_stats, clock>>

\* the button "Save to History", shown when there is a last translation
AppSaveButton ==
  /\ variant = "app"
  /\ pc \in {"idle", "stopped"}
  /\ current_translation # NoTranslation
  /\ conversation_history' =
       App_save_to_history(conversation_history, current_translation)
  /\ UNCHANGED <<variant, entry, callVars, translation_service, is_recording,
                 source_language, target_language, current_translation,
                 session_stats, clock>>

\* the button "Clear History", shown when the history is not empty
AppClearHistory ==
  /\ variant = "app"
  /\ pc \in {"idle", "stopped"}
  /\ conversation_history # <<>>
  /\ conversation_history' = <<>>
  /\ UNCHANGED <<variant, entry, callVars, translation_service, is_recording,
                 source_language, target_language, current_translation,
                 session_stats, clock>>

\* clear_session of streamlit_app.py with total_words left as it is
AppClearSession_KeepsWords ==
  /\ variant = "app"
  /\ pc \in {"idle", "stopped"}
  /\ conversation_history' = <<>>
  /\ current_translation' = NoTranslation
  /\ session_stats' = [session_stats EXCEPT !.translations_count = 0]
  /\ UNCHANGED <<variant, entry, callVars, translation_service, is_recording,
                 source_language, target_language, clock>>

\* VoiceTranslatorApp.clear_session, the button "Clear Session"
AppClearSession ==
  /\ variant = "app"
  /\ pc \in {"idle", "stopped"}
  /\ conversation_history' = <<>>
  /\ current_translation' = NoTranslation
  /\ session_stats' = [translations_count |-> 0, total_words |-> 0]
  /\ UNCHANGED <<variant, entry, callVars, translation_service, is_recording,
                 source_language, target_language, clock>>

AppPageNext ==
  \/ AppTranslateText
  \/ AppRecordButton
  \/ AppRecordingEnds
  \/ AppSetLanguages
  \/ AppSaveButton
  \/ AppClearHistory
  \/ AppClearSession

\* the page of streamlit_app.py: the handlers of its buttons, one script
\* run after the other
SpecAppPage == AppPageInit /\ [][AppPageNext]_vars

(***************************************************************************)
(* Specifications                                                          *)
(***************************************************************************)

Init ==
  \/ FinalInit \/ WorkingInit \/ RobustInit \/ FinalPageInit
  \/ FinalRepeatInit \/ WorkingRepeatInit \/ HistoryInit \/ HelperInit
  \/ RoundTripInit \/ SimplePageInit \/ WorkingPageInit \/ AppPageInit

Next ==
  \/ FinalNext \/ WorkingNext \/ RobustNext \/ FinalPageNext
  \/ TranslateAgain \/ HistoryNext \/ HelperNext
  \/ RoundTripNext \/ SimplePageNext \/ WorkingPageNext \/ AppPageNext

\* every variant, each from its own initial states
Spec == Init /\ [][Next]_vars

\* the calls of translate of the two translator classes and the page of the
\* robust variant
SpecTranslate ==
  (FinalInit \/ WorkingInit \/ RobustInit)
    /\ [][FinalNext \/ WorkingNext \/ RobustNext]_vars

\* the calls of translate of the two translator classes
SpecTranslators == (FinalInit \/ WorkingInit) /\ [][FinalNext \/ WorkingNext]_vars

\* the pages of streamlit_app_final.py, streamlit_app_working.py and
\* streamlit_app.py, each with the handlers of its buttons
SpecPages ==
  (FinalPageInit \/ WorkingPageInit \/ AppPageInit)
    /\ [][FinalPageNext \/ WorkingPageNext \/ AppPageNext]_vars

(***************************************************************************)
(* Properties                                                              *)
(***************************************************************************)

\* the stages tried so far, in order
Stages == [i \in 1..Len(calls) |-> calls[i].stage]

\* the stages of FallbackTranslator.translate in the order it lists them
FinalOrder ==
  (IF deep_available THEN <<"deep">> ELSE <<>>) \o <<"mymemory", "libre", "dictionary">>

\* the stage that follows a backend stage
StageAfter(stage) ==
  CASE stage = "deep" -> "mymemory"
    [] stage = "mymemory" -> "libre"
    [] stage = "libre" -> "dictionary"

IsPrefix(s, t) == Len(s) <= Len(t) /\ \A i \in 1..Len(s) : s[i] = t[i]

\* the call has returned from its dictionary stage
AnsweredByDictionary ==
  pc = "done" /\ calls # <<>> /\ calls[Len(calls)].stage = "dictionary"

\* the text the dictionary stage returned
DictionaryOutput == calls[Len(calls)].out.ret.val

\* the dictionary the running variant uses for the languages of the call
DictionaryInUse ==
  CASE variant = "final" -> FinalTranslations(src, dest)
    [] variant = "working" -> WorkingTranslations(src, dest)
    [] variant = "robust" -> RobustTranslations(src, dest)

\* the lowercased, trimmed input
LoweredInput == Strip(Lower(text))

\* the items of the dictionary in use whose phrase occurs in the lowercased input
MatchingItems ==
  {i \in 1..Len(DictionaryInUse) : Contains(LoweredInput, DictionaryInUse[i][1])}

\* those of them whose phrase is longest
LongestMatchingItems ==
  {i \in MatchingItems :
     \A j \in MatchingItems : Len(DictionaryInUse[j][1]) <= Len(DictionaryInUse[i][1])}

\* C1: translate of FallbackTranslator and of SimpleTranslator never raises:
\* for a non-empty text, whatever the languages and whatever the backends
\* do, the call is never left by an exception, and the text of the result it
\* returns is a string
C1_TranslateNeverRaises ==
  (variant \in {"final", "working"} /\ text # <<>>) =>
     /\ pc # "raised"
     /\ pc = "done" => result.text.some

\* a call that returned although a backend raised and the language pair has no
\* dictionary
C1_Witness ==
  /\ variant = "final"
  /\ pc = "done"
  /\ text # <<>>
  /\ dest = "fr"
  /\ \E i \in 1..Len(calls) : calls[i].out.raised
  /\ result.text.some

\* C2: FallbackTranslator.translate tries its stages in the order Deep
\* Translator (only when available), MyMemory, LibreTranslate, dictionary,
\* each at most once, and a backend result that is non-empty and differs from
\* the text ends the call: it is the result and no later stage is tried
C2_StagesInPriorityOrder ==
  variant = "final" =>
     /\ IsPrefix(Stages, FinalOrder)
     /\ \A i \in 1..Len(calls) :
          ( /\ calls[i].stage # "dictionary"
            /\ ~calls[i].out.raised
            /\ calls[i].out.ret.some
            /\ calls[i].out.ret.val # <<>>
            /\ calls[i].out.ret.val # text )
          => (i = Len(calls) /\ pc = "done" /\ result.text = calls[i].out.ret)

\* MyMemory's result was returned after Deep Translator was tried and rejected
C2_Witness ==
  /\ variant = "final"
  /\ pc = "done"
  /\ deep_available
  /\ Stages = <<"deep", "mymemory">>
  /\ result.text = calls[2].out.ret

\* C3: in FallbackTranslator.translate a backend result that is empty or equal
\* to the text is never the result of the call: the next stage is tried
C3_EmptyOrSameRejected ==
  variant = "final" =>
     \A i \in 1..Len(calls) :
        ( /\ calls[i].stage # "dictionary"
          /\ ~calls[i].out.raised
          /\ calls[i].out.ret.some
          /\ (calls[i].out.ret.val = <<>> \/ calls[i].out.ret.val = text) )
        => /\ pc \notin {"done", "raised"} \/ i < Len(calls)
           /\ IF i < Len(calls) THEN calls[i + 1].stage = StageAfter(calls[i].stage)
              ELSE pc = StageAfter(calls[i].stage)

\* a call that returned after one backend answered the text itself and another
\* an empty string
C3_Witness ==
  /\ variant = "final"
  /\ pc = "done"
  /\ \E i, j \in 1..Len(calls) :
       /\ calls[i].stage # "dictionary"
       /\ calls[i].out.ret = Some(text)
       /\ calls[j].stage # "dictionary"
       /\ calls[j].out.ret = Some(<<>>)

\* a backend stage failed: it raised, or its helper swallowed the error and
\* returned None
StageFailed(c) == c.stage # "dictionary" /\ (c.out.raised \/ ~c.out.ret.some)

\* C4: in translate of FallbackTranslator and of SimpleTranslator a backend
\* that fails does not end the call: the next stage in order is tried; and
\* when every backend tried has failed the result is what the dictionary
\* fallback of the variant gives for the same text, src and dest
C4_FailureFallsThrough ==
  variant \in {"final", "working"} =>
     /\ \A i \in 1..Len(calls) :
          StageFailed(calls[i]) =>
             /\ pc # "raised"
             /\ IF i < Len(calls) THEN calls[i + 1].stage = StageAfter(calls[i].stage)
                ELSE pc = StageAfter(calls[i].stage)
     /\ ( /\ pc = "done"
          /\ calls # <<>>
          /\ \A i \in 1..Len(calls) :
               calls[i].stage # "dictionary" => StageFailed(calls[i]) )
        => /\ calls[Len(calls)].stage = "dictionary"
           /\ result.text =
                Some(IF variant = "final"
                     THEN Final_translate_with_dictionary(text, src, dest)
                     ELSE Working_translate_with_dict(text, src, dest))

\* Deep Translator raised, MyMemory and LibreTranslate failed, and the call
\* returned the dictionary's answer
C4_Witness ==
  /\ variant = "final"
  /\ pc = "done"
  /\ Stages = <<"deep", "mymemory", "libre", "dictionary">>
  /\ calls[1].out.raised
  /\ ~calls[2].out.ret.some
  /\ ~calls[3].out.ret.some
  /\ result.text = calls[4].out.ret

\* C5: in translate_text of the robust variant, when the backend call raises,
\* resolution goes on to backup_translate and the translation it gives is
\* stored as the current translation
C5_RobustErrorFallsBack ==
  (variant = "robust" /\ calls # <<>> /\ calls[1].out.raised) =>
     /\ Len(calls) = 2
     /\ calls[2].stage = "dictionary"
     /\ current_translation # NoTranslation
     /\ current_translation.original_text = text
     /\ current_translation.translated_text = calls[2].out.ret.val

\* C6: for an empty or whitespace-only text FallbackTranslator.translate
\* returns at once a result whose text is the empty string: no backend and no
\* dictionary stage is tried
C6_BlankReturnsEmpty ==
  (variant = "final" /\ \A i \in 1..Len(text) : text[i] \in Whitespace) =>
     /\ calls = <<>>
     /\ pc \in {"start", "done"}
     /\ pc = "done" => result = MockTranslation(Some(<<>>), src, dest)

\* a whitespace-only text for which the call returned
C6_Witness ==
  /\ variant = "final"
  /\ pc = "done"
  /\ text # <<>>
  /\ \A i \in 1..Len(text) : text[i] \in Whitespace
  /\ result.text = Some(<<>>)

\* C7: when no backend result was accepted and the lowercased, trimmed input
\* is a key of the dictionary of the language pair, the result of translate
\* (FallbackTranslator and SimpleTranslator) is exactly the value of that key
C7_ExactKeyGivesValue ==
  (variant \in {"final", "working"} /\ AnsweredByDictionary) =>
     \A i \in 1..Len(DictionaryInUse) :
        DictionaryInUse[i][1] = LoweredInput => result.text = Some(DictionaryInUse[i][2])

\* an exact key, written with other case or blanks around it, that holds a
\* shorter key of the same dictionary
C7_Witness ==
  /\ variant \in {"final", "working"}
  /\ AnsweredByDictionary
  /\ text # LoweredInput
  /\ \E i \in 1..Len(DictionaryInUse) :
       /\ DictionaryInUse[i][1] = LoweredInput
       /\ result.text = Some(DictionaryInUse[i][2])
  /\ \E j \in MatchingItems : DictionaryInUse[j][1] # LoweredInput

\* C8: in the dictionary fallback of every variant, when the input is not an
\* exact key and several phrases of the dictionary occur in it, a phrase of
\* greatest length is translated: its translation is in the output
C8_LongestPhraseWins ==
  ( /\ AnsweredByDictionary
    /\ ~HasKey(DictionaryInUse, LoweredInput)
    /\ Cardinality(MatchingItems) >= 2 )
  => \E i \in LongestMatchingItems : Contains(DictionaryOutput, DictionaryInUse[i][2])

\* C9: when translate_with_dictionary of FallbackTranslator answers through
\* the substring step, its output is the lowercased, trimmed input with one
\* occurrence of a longest matching phrase replaced by its translation and
\* nothing else changed
C9_SingleReplacement ==
  ( /\ variant = "final"
    /\ AnsweredByDictionary
    /\ ~HasKey(DictionaryInUse, LoweredInput)
    /\ MatchingItems # {} )
  => \E i \in LongestMatchingItems : \E p \in 1..Len(LoweredInput) :
        /\ MatchAt(LoweredInput, DictionaryInUse[i][1], p)
        /\ DictionaryOutput =
             SubSeq(LoweredInput, 1, p - 1) \o DictionaryInUse[i][2]
               \o SubSeq(LoweredInput, p + Len(DictionaryInUse[i][1]), Len(LoweredInput))

\* the tokens of the lowercased input, each replaced by its translation when
\* it is a key (in the final variant after stripping its punctuation) and
\* left as it is otherwise
TokensTranslated ==
  IF variant = "final"
  THEN FinalTranslateWords(DictionaryInUse, Split(LoweredInput))
  ELSE [i \in 1..Len(Split(LoweredInput)) |->
          GetOrSelf(DictionaryInUse, Split(LoweredInput)[i])]

\* C10: in the dictionary fallback of final and working, for an input that is
\* not an exact key, holds no phrase of several words and has a token that is
\* a key, the output is the tokens joined by single spaces, each key token
\* replaced by its translation and every other token unchanged
C10_WordByWord ==
  ( /\ variant \in {"final", "working"}
    /\ AnsweredByDictionary
    /\ ~HasKey(DictionaryInUse, LoweredInput)
    /\ \A i \in MatchingItems : ~Contains(DictionaryInUse[i][1], <<" ">>)
    /\ TokensTranslated # Split(LoweredInput) )
  => DictionaryOutput = Join(TokensTranslated, <<" ">>)

\* C11: SimpleTranslator.translate, for a non-empty text in which nothing is
\* translated (no backend gave a result and no phrase of the dictionary
\* occurs in the lowercased input, as the whole of it, inside it or as one of
\* its tokens), returns "[Translation needed: <text>]" with the text as it
\* was given, whatever whitespace separates its tokens
C11_MissGivesSentinel ==
  ( /\ variant = "working"
    /\ AnsweredByDictionary
    /\ text # <<>>
    /\ MatchingItems = {} )
  => result.text = Some(TranslationNeeded(text))

\* C12: FallbackTranslator.translate, when every backend failed and no phrase
\* of the dictionary occurs in the input, returns "[Translation needed:
\* <text>]" with the text as it was given (not lowercased)
C12_FinalSentinel ==
  ( /\ variant = "final"
    /\ AnsweredByDictionary
    /\ MatchingItems = {} )
  => result.text = Some(TranslationNeeded(text))

\* C13: on the page of streamlit_app_final.py, after any sequence of
\* translations of typed texts, quick phrases and recognized texts, language
\* switches and clear_session, the translated_text of current_translation
\* (when there is one) and of every record of conversation_history is not
\* empty, whatever the backends returned
C13_TranslatedTextNeverEmpty ==
  (variant = "final" /\ entry = "page") =>
     /\ current_translation # NoTranslation =>
          current_translation.translated_text # <<>>
     /\ \A i \in 1..Len(conversation_history) :
          conversation_history[i].translated_text # <<>>

\* a translation of a text no dictionary phrase occurs in is stored and is in
\* the history after an earlier one
C13_Witness ==
  /\ variant = "final"
  /\ entry = "page"
  /\ current_translation # NoTranslation
  /\ current_translation.translated_text = FinalSentinel(current_translation.original_text)
  /\ Len(conversation_history) >= 2
  /\ conversation_history[Len(conversation_history)] = current_translation

\* C14: in the robust variant the is_backup flag of the stored result is true
\* if and only if its translated text was produced by backup_translate, and
\* false exactly when the result of a backend was used
C14_BackupFlagTellsFallback ==
  (variant = "robust" /\ pc = "done" /\ current_translation # NoTranslation) =>
     /\ current_translation.is_backup <=> calls[Len(calls)].stage = "dictionary"
     /\ current_translation.is_backup =>
          current_translation.translated_text = DictionaryOutput
     /\ ~current_translation.is_backup =>
          /\ calls[1].stage = translation_service
          /\ current_translation.translated_text = calls[1].out.ret.val

\* MyMemory answered with an empty text and the stored result, produced by
\* backup_translate, is flagged
C14_Witness ==
  /\ variant = "robust"
  /\ pc = "done"
  /\ translation_service = "mymemory"
  /\ calls[1].out = Returned(Some(<<>>))
  /\ current_translation # NoTranslation
  /\ current_translation.is_backup
  /\ current_translation.translated_text =
       Robust_backup_translate(text, src, dest)

C16_HistoryWithinCap ==
  /\ variant \in {"final", "working"} => Len(conversation_history) <= 50
  /\ variant = "simple" => Len(conversation_history) <= 100

\* the simple variant has saved more than 100 records: the history is at its
\* cap and its oldest record is gone
C16_Witness ==
  /\ variant = "simple"
  /\ clock > SimpleHistoryCap
  /\ Len(conversation_history) = SimpleHistoryCap
  /\ conversation_history[1].timestamp > 1

LoggedStages == {i \in 1..Len(calls) : calls[i].stage \in {"mymemory", "libre"}}

\* C18: in translate_with_mymemory and translate_with_libre of the working
\* variant and translate_with_mymemory of the robust variant, a response with
\* an HTTP status other than 200, or without the translated-text field, is a
\* failure: the helper returns no text of its body that translate or
\* translate_text would take for the translation
C18_Non200IsFailure ==
  (entry = "helper" /\ variant \in {"working", "robust"}) =>
     \A i \in LoggedStages :
        ( /\ ~calls[i].response.error
          /\ \/ calls[i].response.status_code # 200
             \/ ~calls[i].response.json_ok
             \/ ~calls[i].response.has_text )
        => ~(calls[i].out.ret.some /\ calls[i].out.ret.val # <<>>)

\* C19: in SimpleTranslator.translate and in translate_text of the robust
\* variant a backend result identical to the input text is a soft failure:
\* it is not returned as the translation, the next backend or the dictionary
\* is tried
C19_IdenticalResultRejected ==
  (variant \in {"working", "robust"} /\ pc = "done") =>
     \A i \in 1..Len(calls) :
        (calls[i].stage # "dictionary" /\ calls[i].out = Returned(Some(text)))
        => i < Len(calls)

\* a text of the response to translate_with_mymemory holds one of the phrases
\* 'hello', 'quota', 'limit', in any case
HasArtifact(translated) ==
  \E phrase \in FinalArtifactPhrases : Contains(Lower(translated), phrase)

\* C20: a MyMemory response whose translated text holds 'hello', 'quota' or
\* 'limit', in any case, is never returned by
\* FallbackTranslator.translate_with_mymemory: the method gives no result and
\* translate goes on to LibreTranslate
C20_ArtifactsFiltered ==
  ( /\ variant = "final"
    /\ entry = "helper"
    /\ calls # <<>>
    /\ HasArtifact(calls[1].response.translatedText) )
  => /\ calls[1].out = Returned(None)
     /\ pc = "libre" \/ (Len(calls) >= 2 /\ calls[2].stage = "libre")
     /\ pc = "done" => calls[Len(calls)].stage # "mymemory"

\* MyMemory answered 200 with a quota notice in capitals and translate has
\* gone on to LibreTranslate
C20_Witness ==
  /\ variant = "final"
  /\ entry = "helper"
  /\ Len(calls) >= 2
  /\ calls[1].response.status_code = 200
  /\ calls[1].response.responseStatus = 200
  /\ calls[1].response.translatedText = QuotaNotice
  /\ calls[1].out = Returned(None)
  /\ calls[2].stage = "libre"

\* C21: in the final variant, translating a key of the en-de dictionary to
\* German and the answer back to English by the dictionary returns the key.
C21_FinalRoundTrip ==
  ( /\ variant = "final" /\ entry = "roundtrip"
    /\ src = "en" /\ dest = "de" /\ pc = "done" )
  => calls[2].out.ret.val = text

\* C22: in the working and robust variants the two dictionaries are inverses
\* of one another: every key translated to the other language and back is
\* itself, in both directions, and so the answer to a key is always a key of
\* the other dictionary.
C22_DictionariesAreInverses ==
  ( /\ variant \in {"working", "robust"} /\ entry = "roundtrip" )
  => /\ pc \in {"back", "done"} =>
          calls[1].out.ret.val \in Keys(backup_translations[PairKey(dest, src)])
     /\ pc = "done" => calls[2].out.ret.val = text

\* a key of the de-en dictionary of each of the two variants has gone to
\* English and come back
C22_Witness ==
  /\ variant \in {"working", "robust"}
  /\ entry = "roundtrip"
  /\ src = "de"
  /\ pc = "done"
  /\ Len(calls) = 2
  /\ calls[1].out.ret.val # text
  /\ calls[2].out.ret.val = text

\* the pair that save_to_history of the simple variant compares
Pair(translation) == <<translation.original_text, translation.translated_text>>

\* C23: in the simple variant no two records of conversation_history have the
\* same (original_text, translated_text) pair, and a step that saves a record
\* whose pair is already in the history (translate_text or "Save to History",
\* after which the record is the current translation and the history is not
\* empty) leaves the history as it was.
C23_NoDuplicatePairs ==
  /\ [](variant = "simple" =>
          \A i, j \in 1..Len(conversation_history) :
             Pair(conversation_history[i]) = Pair(conversation_history[j]) => i = j)
  /\ [][( /\ variant = "simple"
          /\ conversation_history' # <<>>
          /\ current_translation' # NoTranslation
          /\ \E i \in 1..Len(conversation_history) :
               Pair(conversation_history[i]) = Pair(current_translation') )
        => conversation_history' = conversation_history]_vars

\* the same text has been translated twice to the same translation, and the
\* history holds it once
C23_Witness ==
  /\ variant = "simple"
  /\ entry = "page"
  /\ session_stats.translations_count = 2
  /\ current_translation.timestamp = 2
  /\ Len(conversation_history) = 1
  /\ conversation_history[1].timestamp = 1
  /\ Pair(conversation_history[1]) = Pair(current_translation)

\* C25: in the simple variant a call of translate_text that finds the
\* translation service unavailable, or whose backend call raises, leaves
\* current_translation, session_stats and conversation_history unchanged.
C25_FailureChangesNothing ==
  [][( /\ variant = "simple"
       /\ entry = "page"
       /\ Len(calls') = Len(calls) + 1
       /\ \/ calls'[Len(calls')].stage = "none"
          \/ calls'[Len(calls')].out.raised )
     => UNCHANGED <<current_translation, session_stats, conversation_history>>]_vars

\* a call of translate_text has failed in a session that had a translation
\* and a history
C25_Witness ==
  /\ variant = "simple"
  /\ entry = "page"
  /\ Len(calls) >= 2
  /\ calls[Len(calls)].out.raised
  /\ current_translation # NoTranslation
  /\ conversation_history # <<>>
  /\ session_stats.translations_count = 1

\* C24: in the working variant the history holds as many records as
\* translations were counted, up to its cap of 50:
\* len(conversation_history) = min(translations_count, 50).
C24_HistoryFollowsCounter ==
  (variant = "working" /\ entry = "history") =>
     Len(conversation_history) =
       IF session_stats.translations_count < WorkingHistoryCap
       THEN session_stats.translations_count
       ELSE WorkingHistoryCap

\* after a cleared session and a switch to German, more translations than
\* the cap have been counted and the history is full
C24_Witness ==
  /\ variant = "working"
  /\ entry = "history"
  /\ source_language = "de"
  /\ session_stats.translations_count > WorkingHistoryCap
  /\ session_stats.translations_count < clock
  /\ Len(conversation_history) = WorkingHistoryCap

\* the dictionary stage has answered and its word-by-word step was reached:
\* the lowercased input is not a key and no phrase occurs in it
ReachedWordByWord ==
  /\ AnsweredByDictionary
  /\ ~HasKey(DictionaryInUse, LoweredInput)
  /\ MatchingItems = {}

\* C26: in translate_with_dictionary (final) and translate_with_dict
\* (working), whenever the word-by-word step is reached no token of the
\* input (with its punctuation stripped in final) is a key, so no token is
\* translated and the output is the marker or the lowercased input with its
\* whitespace collapsed to single spaces.
C26_WordByWordTranslatesNothing ==
  (variant \in {"final", "working"} /\ entry = "translate" /\ ReachedWordByWord) =>
     /\ TokensTranslated = Split(LoweredInput)
     /\ \/ DictionaryOutput = (IF variant = "final" THEN FinalSentinel(text)
                               ELSE TranslationNeeded(text))
        \/ DictionaryOutput = Join(Split(LoweredInput), <<" ">>)

\* the word-by-word step of each of the two variants has joined the tokens
\* of a text whose whitespace is not single spaces
C26_Witness ==
  /\ variant \in {"final", "working"}
  /\ entry = "translate"
  /\ ReachedWordByWord
  /\ Len(Split(LoweredInput)) >= 2
  /\ DictionaryOutput = Join(Split(LoweredInput), <<" ">>)
  /\ DictionaryOutput # LoweredInput

\* a step in which a counter goes down or the current translation goes back
\* to none: in these programs only clear_session does that
SessionCleared ==
  \/ session_stats'.translations_count < session_stats.translations_count
  \/ session_stats'.total_words < session_stats.total_words
  \/ current_translation # NoTranslation /\ current_translation' = NoTranslation

\* C27: clear_session (final, working, streamlit_app.py) resets
\* conversation_history to empty, the current translation to none and both
\* counters to zero, and leaves source_language and target_language unchanged.
C27_ClearSessionFrame ==
  [][(variant \in {"final", "working", "app"} /\ entry = "page" /\ SessionCleared)
     => /\ conversation_history' = <<>>
        /\ current_translation' = NoTranslation
        /\ session_stats'.translations_count = 0
        /\ session_stats'.total_words = 0
        /\ source_language' = source_language
        /\ target_language' = target_language]_vars

\* a session that translated from German has been cleared: a timestamp was
\* given, nothing is counted or kept any more and the selection is still
\* German to English
C27_Witness ==
  /\ variant \in {"final", "working", "app"}
  /\ entry = "page"
  /\ clock >= 1
  /\ session_stats = [translations_count |-> 0, total_words |-> 0]
  /\ conversation_history = <<>>
  /\ current_translation = NoTranslation
  /\ source_language = "de"
  /\ target_language = "en"

\* C28: the language selection is always (en, de) or (de, en), so source and
\* target are never equal, and a step that writes the current translation,
\* the history or the counters (translate, save, clear) leaves it as it was.
C28_TwoLanguageSelections ==
  /\ [](<<source_language, target_language>> \in {<<"en", "de">>, <<"de", "en">>})
  /\ [][<<current_translation, conversation_history, session_stats>>'
          # <<current_translation, conversation_history, session_stats>>
        => UNCHANGED <<source_language, target_language>>]_vars

\* with German to English selected, a text has been translated and saved and
\* the selection is still the one its record carries
C28_Witness ==
  /\ entry = "page"
  /\ source_language = "de"
  /\ target_language = "en"
  /\ conversation_history # <<>>
  /\ current_translation.source_lang = "de"
  /\ current_translation.target_lang = "en"
  /\ session_stats.translations_count >= 1

\* C29: in the final and working variants total_words >= translations_count
\* >= 0: every counted translation was requested with a text of at least one
\* word.
C29_WordsAtLeastTranslations ==
  (variant \in {"final", "working"} /\ entry = "page") =>
     /\ session_stats.translations_count >= 0
     /\ session_stats.total_words >= session_stats.translations_count

\* two texts of one word each have been counted in a page of the final or
\* working variant: the two counters are equal
C29_Witness ==
  /\ variant \in {"final", "working"}
  /\ entry = "page"
  /\ session_stats.translations_count = 2
  /\ session_stats.total_words = 2

\* C30: in streamlit_app.py is_recording is False whenever start_recording
\* has returned, whichever way its try block was left, so every script run
\* renders the "Start Recording" branch and the "Stop Recording" branch, with
\* stop_recording, is never taken.
C30_RecordingFlagCleared ==
  variant = "app" =>
     /\ pc # "recording" => ~is_recording
     /\ pc # "stopped"

\* start_recording has returned after a timeout, in a session where an
\* earlier recording or text was translated
C30_Witness ==
  /\ variant = "app"
  /\ pc = "idle"
  /\ calls = <<Call("timeout", Returned(None))>>
  /\ ~is_recording
  /\ current_translation # NoTranslation

====
